---------------------------- MODULE Spec2Model ----------------------------
(***************************************************************************)
(* Model of the USB host transport in src/pc/protocols/usb_host.cpp:       *)
(* the enumerator getUSBDevices, the MxId acquisition getLibusbDeviceMxId, *)
(* the path encoder getLibusbDevicePath and lookup-by-path                 *)
(* refLibusbDeviceByName, run by threads that share one mutex and one      *)
(* MxId cache.  Strings are sequences of one-character strings.            *)
(***************************************************************************)
EXTENDS Integers, Sequences, FiniteSets, TLC

\* ------------------------------------------------------------------ bounds
\* longest device list the backend returns
MaxDevs == 2
\* the same while every thread is calling
MaxDevsThreads == 2
\* the same where every thread also boots and opens
MaxDevsLive == 2
\* largest output buffer capacity a caller passes
MaxCap == 2
\* number of slots of the MxId cache
CacheSize == 1
\* the same for a client that only enumerates
MaxDevsMxId == 3
CacheSizeMxId == 2
\* DEFAULT_CHUNKSZ is defined outside this file; a small value stands for it
DEFAULT_CHUNKSZ == 1024
\* the bulk transfers of one usb_read or usb_write that are followed
MaxTransfers == 3
\* the sizes of the MxId request payload and of the request-end payload
\* (set by usb_mx_id.h), scaled down
usb_mx_id_get_payload_size == 2
usb_mx_id_get_payload_end_size == 1

\* --------------------------------------------------------------- constants
MAXIMUM_PORT_NUMBERS == 7
LIBUSB_SUCCESS == 0
LIBUSB_ERROR_IO == -1
LIBUSB_ERROR_ACCESS == -3
LIBUSB_ERROR_BUSY == -6
expectedMxIdReadSize == 9
VID_MOVIDIUS == 999
PID_UNBOOTED == 9349
PID_BOOTED == 63035
PID_BOOTLOADER == 63036
LIBUSB_ERROR_NO_DEVICE == -4
LIBUSB_ERROR_TIMEOUT == -7
USB1_CHUNKSZ == 64
USB_ENDPOINT_IN == 129
USB_ENDPOINT_OUT == 1
\* uint16_t bcdusb = -1 in usb_boot, and the 0x200 send_file compares it with
bcdusb == 65535
BCD_USB2 == 512
\* the image length the trailer depends on: filesize % 512
ZLP_MODULUS == 512
\* the endpoints of the MxId exchange (0x01, 0x81)
send_ep == 1
recv_ep == 129

Threads == {"t1", "t2"}
NoThread == "none"

Min(a, b) == IF a < b THEN a ELSE b
Max(a, b) == IF a < b THEN b ELSE a

\* ----------------------------------------------------------------- strings
EmptyStr == << >>
Digits == <<"0", "1", "2", "3", "4", "5", "6", "7", "8", "9">>
HexDigits == <<"0", "1", "2", "3", "4", "5", "6", "7", "8", "9",
               "A", "B", "C", "D", "E", "F">>

\* std::to_string of an unsigned byte: its decimal digits, no padding
RECURSIVE to_string(_)
to_string(n) ==
    IF n < 10 THEN <<Digits[n + 1]>>
    ELSE to_string(n \div 10) \o <<Digits[(n % 10) + 1]>>

\* sprintf("%02X", b): two uppercase hexadecimal digits
Hex02X(b) == <<HexDigits[(b \div 16) + 1], HexDigits[(b % 16) + 1]>>

\* faulty variant: b & 0x0F, the mask the source comment calls the expected one
Mask0F(b) == b % 16

\* b & 0xF0 on a byte
MaskF0(b) == b - (b % 16)

ErrorPath == <<"<", "e", "r", "r", "o", "r", ">">>

\* ------------------------------------------------------------ vid/pid table
vidPidToDeviceState ==
    (<<VID_MOVIDIUS, PID_UNBOOTED>> :> "UNBOOTED")
    @@ (<<VID_MOVIDIUS, PID_BOOTED>> :> "BOOTED")
    @@ (<<VID_MOVIDIUS, PID_BOOTLOADER>> :> "BOOTLOADER")

\* ------------------------------------------------------------- path encoder
RECURSIVE JoinPorts(_)
JoinPorts(ports) ==
    IF Len(ports) = 1 THEN to_string(ports[1])
    ELSE to_string(ports[1]) \o <<".">> \o JoinPorts(Tail(ports))

\* libusb_get_port_numbers into an array of MAXIMUM_PORT_NUMBERS entries:
\* the count, or overflow when the chain is longer than the array
PortCountOverflows(dev) == Len(dev.ports) > MAXIMUM_PORT_NUMBERS

getLibusbDevicePath(dev) ==
    LET devicePath == to_string(dev.bus) \o <<".">>
    IN  IF PortCountOverflows(dev) THEN ErrorPath
        ELSE IF Len(dev.ports) = 0 THEN devicePath
        ELSE devicePath \o JoinPorts(dev.ports)

\* ----------------------------------------------------------- backend inputs
\* Devices the backend may list.  nul: the list entry is a null pointer;
\* desc: libusb_get_device_descriptor succeeds; serial: the ASCII string
\* descriptor at iSerialNumber.
DevUnbooted ==
    [nul |-> FALSE, desc |-> TRUE, vid |-> VID_MOVIDIUS, pid |-> PID_UNBOOTED,
     bus |-> 1, ports |-> <<2>>, serial |-> EmptyStr]
DevBooted ==
    [nul |-> FALSE, desc |-> TRUE, vid |-> VID_MOVIDIUS, pid |-> PID_BOOTED,
     bus |-> 2, ports |-> << >>, serial |-> <<"A", "7">>]
DevBootloaderDeep ==
    [nul |-> FALSE, desc |-> TRUE, vid |-> VID_MOVIDIUS, pid |-> PID_BOOTLOADER,
     bus |-> 1, ports |-> <<1, 1, 1, 1, 1, 1, 1, 1>>, serial |-> <<"B">>]
DevOther ==
    [nul |-> FALSE, desc |-> TRUE, vid |-> VID_MOVIDIUS, pid |-> 4660,
     bus |-> 1, ports |-> <<10>>, serial |-> EmptyStr]
DevNoDescriptor ==
    [nul |-> FALSE, desc |-> FALSE, vid |-> VID_MOVIDIUS, pid |-> PID_UNBOOTED,
     bus |-> 3, ports |-> <<1>>, serial |-> EmptyStr]
DevNull ==
    [nul |-> TRUE, desc |-> FALSE, vid |-> 0, pid |-> 0,
     bus |-> 0, ports |-> << >>, serial |-> EmptyStr]

Catalog ==
    {DevUnbooted, DevBooted, DevBootloaderDeep, DevOther, DevNoDescriptor, DevNull}

\* the device lists libusb_get_device_list may return
DeviceLists == UNION {[1..n -> Catalog] : n \in 0..MaxDevs}

\* error codes a backend call may return
BackendErrors == {LIBUSB_ERROR_ACCESS, LIBUSB_ERROR_BUSY}

\* 9-byte responses of an unbooted device to the MxId request
Responses ==
    {<<18, 52, 86, 120, 154, 188, 222, 240, 90>>,
     <<0, 9, 10, 15, 16, 127, 128, 255, 175>>,
     <<255, 255, 255, 255, 255, 255, 255, 255, 15>>}

\* what a failed string-descriptor read may leave in the local buffer
PartialBytes == <<"?">>

\* caller inputs
ExampleMxId ==
    <<"1", "2", "3", "4", "5", "6", "7", "8", "9",
      "A", "B", "C", "D", "E", "F", "0", "5", "0">>
FilterStates == {"ANY", "UNBOOTED", "BOOTED"}
FilterNames == {EmptyStr, <<"1", ".", "2">>}
FilterMxIds == {EmptyStr, ExampleMxId}
Filters == [state : FilterStates, name : FilterNames, mxid : FilterMxIds]
Capacities == (-1)..MaxCap
LookupNames == {EmptyStr, <<"1", ".", "2">>, <<"2", ".">>, <<"9">>}

\* ------------------------------------------------------------- MxId cache
\* (usb_mx_id.h; the implementation is not part of the sources at hand)
EmptySlot == [valid |-> FALSE, path |-> EmptyStr, mxid |-> EmptyStr]

\* init-for-sweep: invalidate all entries
usb_mx_id_cache_init(c) == [k \in DOMAIN c |-> EmptySlot]

CacheHits(c, path) == {k \in DOMAIN c : c[k].valid /\ c[k].path = path}

\* lookup(path): whether an entry matches exactly
usb_mx_id_cache_found(c, path) == CacheHits(c, path) # {}

\* lookup(path): the serial of the (first) matching entry
usb_mx_id_cache_get_entry(c, path) ==
    LET k == CHOOSE k \in CacheHits(c, path) : \A m \in CacheHits(c, path) : k <= m
    IN  c[k].mxid

FreeSlots(c) == {k \in DOMAIN c : ~c[k].valid}

\* store: the index of the first empty slot, or -1 when the cache is full
usb_mx_id_cache_store_index(c) ==
    IF FreeSlots(c) = {} THEN -1
    ELSE CHOOSE k \in FreeSlots(c) : \A m \in FreeSlots(c) : k <= m

\* store: the cache after storing (unchanged when full)
usb_mx_id_cache_store_entry(c, mxid, path) ==
    LET k == usb_mx_id_cache_store_index(c)
    IN  IF k < 0 THEN c
        ELSE [c EXCEPT ![k] = [valid |-> TRUE, path |-> path, mxid |-> mxid]]

\* ------------------------------------------------------------------- state
VARIABLES
    mutex,   \* the thread holding the global std::mutex, or NoThread
    cache,   \* the MxId cache
    pc,      \* each thread's position
    op,      \* the call each thread is in: "enum", "ref" or "none"
    arg,     \* the call's parameters
    fr,      \* locals of getUSBDevices / refLibusbDeviceByName; list says
             \* whether the backend's device list is "none", "held" or "freed"
    mx,      \* locals of getLibusbDeviceMxId and the handle it opened; tried:
             \* the retry loop's body has run; stage: the step its last run
             \* ended at; rbuf: the response the successful exchange read
    res,     \* what the caller sees: records, count, return code, *pdev
    acq,     \* history: the MxId acquisitions of the current call, in order
    client,  \* the entry points the client program calls
    refs,    \* each device's reference count, relative to its count at start
    bulk_chunklen,  \* the file-scope static of that name
    bt       \* locals of usb_boot, usbLinkOpen, usbLinkBootBootloader,
             \* usb_read and usb_write, the handle they work on and the
             \* bulk transfers they have issued

vars == <<mutex, cache, pc, op, arg, fr, mx, res, acq, client, refs, bulk_chunklen, bt>>
hostvars == <<client, refs, bulk_chunklen, bt>>

NoFilter == [state |-> "ANY", name |-> EmptyStr, mxid |-> EmptyStr]
NoArg == [filter |-> NoFilter, size |-> 0, name |-> EmptyStr]
NoFrame ==
    [devs |-> << >>, list |-> "none", i |-> 0, numDevicesFound |-> 0,
     state |-> "ANY", devicePath |-> EmptyStr, found |-> FALSE]
NoMx ==
    [mxId |-> EmptyStr, outMxId |-> EmptyStr, rbuf |-> << >>, handle |-> "none",
     claimed |-> FALSE, libusb_rc |-> LIBUSB_SUCCESS, tried |-> FALSE,
     stage |-> "none", calls |-> << >>, opens |-> 0, closes |-> 0]
NoRes ==
    [recs |-> << >>, amountWritten |-> FALSE, amount |-> 0,
     ret |-> "none", pdev |-> 0]

\* no handle yet; closes counts the libusb_close calls made on the handle
NoHandle == [state |-> "none", claimed |-> FALSE, closes |-> 0, stage |-> "none"]
NoBt ==
    [addr |-> EmptyStr, size |-> 0, found |-> FALSE, hasDev |-> FALSE,
     dev |-> DevNull, opened |-> FALSE, h |-> NoHandle, endpoint |-> 0,
     chunk |-> 0, send_zlp |-> FALSE, twb |-> 0, log |-> << >>, sends |-> 0,
     unrefs |-> 0, rc |-> "none", ret |-> 0]

\* everything but the cache, the calling threads and their entry points
InitProcess ==
    /\ refs = [d \in Catalog |-> 0]
    /\ bulk_chunklen = DEFAULT_CHUNKSZ
    /\ bt = [t \in Threads |-> NoBt]
    /\ mutex = NoThread
    /\ op = [t \in Threads |-> "none"]
    /\ arg = [t \in Threads |-> NoArg]
    /\ fr = [t \in Threads |-> NoFrame]
    /\ mx = [t \in Threads |-> NoMx]
    /\ res = [t \in Threads |-> NoRes]
    /\ acq = [t \in Threads |-> << >>]

InitCommon ==
    /\ InitProcess
    /\ cache = [k \in 1..CacheSize |-> EmptySlot]

\* Whether every thread is calling.  Then the inputs are drawn from smaller
\* sets: the interleavings are what matters there.
AllThreadsCall == \A t \in Threads : pc[t] # "off"

\* Whether the client also boots, opens and uses the pipe.  Then too the
\* enumerator's inputs are drawn from smaller sets.
HostCalls == client \ {"enum", "ref"} # {}

\* Whether the client only enumerates.  Then the lists are longer, over
\* devices with three different paths, and the backend's answers to the
\* steps of the MxId exchange are drawn from larger sets.
EnumOnly == client = {"enum"}

Focused == AllThreadsCall \/ HostCalls

\* Whether every thread calls and also boots and opens.  Then the inputs
\* are the smallest that make each step happen.
Live == AllThreadsCall /\ HostCalls

ListsNow ==
    IF Live
    THEN UNION {[1..n -> {DevUnbooted}] : n \in {0, MaxDevsLive}}
    ELSE IF EnumOnly
    THEN UNION {[1..n -> {DevUnbooted, DevBooted, DevBootloaderDeep}] : n \in 0..MaxDevsMxId}
    ELSE IF AllThreadsCall
    THEN UNION {[1..n -> {DevUnbooted}] : n \in 0..MaxDevsThreads}
    ELSE IF HostCalls
         THEN UNION {[1..n -> {DevUnbooted, DevBooted}] : n \in 0..MaxDevsThreads}
         ELSE DeviceLists
FiltersNow ==
    IF Focused \/ EnumOnly
    THEN {NoFilter}
    ELSE Filters
CapacitiesNow ==
    IF EnumOnly THEN {MaxDevsMxId} ELSE IF Focused THEN {MaxCap} ELSE Capacities
LookupNamesNow ==
    IF Live THEN {<<"1", ".", "2">>}
    ELSE IF Focused THEN {<<"1", ".", "2">>, <<"9">>} ELSE LookupNames
ErrorsNow == IF Focused \/ EnumOnly THEN {LIBUSB_ERROR_ACCESS} ELSE BackendErrors
\* the errors of get/set configuration and of the bulk transfers of the MxId
\* exchange
ConfigErrorsNow == IF Live THEN {} ELSE ErrorsNow
TransferErrorsNow == IF Live THEN {} ELSE {LIBUSB_ERROR_TIMEOUT}
ResponsesNow ==
    IF Focused \/ EnumOnly THEN {<<18, 52, 86, 120, 154, 188, 222, 240, 90>>}
    ELSE Responses

\* one calling thread
Init ==
    /\ InitCommon
    /\ client = {"enum", "ref"}
    /\ pc = [t \in Threads |-> IF t = "t1" THEN "idle" ELSE "off"]

\* every thread calls
InitThreads ==
    /\ InitCommon
    /\ client = {"enum", "ref"}
    /\ pc = [t \in Threads |-> "idle"]

\* ------------------------------------------------------------ the mutex
\* faulty variant: a lock that does not wait for the holder
lock_guard_nowait(t) == mutex' = t

\* std::lock_guard<std::mutex> l(mutex): blocks until the mutex is free
lock_guard(t) ==
    /\ mutex = NoThread
    /\ mutex' = t

\* faulty variant: a return path that leaves the mutex locked
unlock_guard_skipped(t) == mutex' = mutex

\* the guard's destructor, run on every return of the function
unlock_guard(t) == mutex' = NoThread

\* ------------------------------------------------- device references
\* the number of entries of list that are device d
Occurrences(list, d) == Cardinality({k \in 1..Len(list) : list[k] = d})

\* libusb_get_device_list takes one reference per listed device
libusb_get_device_list(r, list) == [d \in Catalog |-> r[d] + Occurrences(list, d)]

\* libusb_free_device_list(devs, 1) drops one reference per listed device
libusb_free_device_list(r, list) == [d \in Catalog |-> r[d] - Occurrences(list, d)]

libusb_ref_device(r, d) == [r EXCEPT ![d] = @ + 1]

libusb_unref_device(r, d) == [r EXCEPT ![d] = @ - 1]

\* the calls that look a device up by its path: the client's own call of
\* refLibusbDeviceByName, and the three functions that call it
InLookup(t) == op[t] \in {"ref", "boot", "open", "bootbl"}

\* where a lookup returns to: the client, or the function that polls it
AfterLookup(t) == IF op[t] = "ref" THEN "done" ELSE "polled"

\* ------------------------------------------------------------- the callers
\* a thread starts a call of getUSBDevices ("enum") or refLibusbDeviceByName ("ref")
Call(t) ==
    /\ pc[t] = "idle"
    /\ \E o \in client :
          /\ op' = [op EXCEPT ![t] = o]
          /\ pc' = [pc EXCEPT ![t] = IF o \in {"enum", "ref"} THEN "lock" ELSE "enter"]
    /\ UNCHANGED <<mutex, cache, arg, fr, mx, res, acq>>
    /\ UNCHANGED hostvars

\* the caller has read the results; its buffers are reused for the next call
Return(t) ==
    /\ pc[t] = "done"
    /\ pc' = [pc EXCEPT ![t] = "idle"]
    /\ op' = [op EXCEPT ![t] = "none"]
    /\ arg' = [arg EXCEPT ![t] = NoArg]
    /\ fr' = [fr EXCEPT ![t] = NoFrame]
    /\ mx' = [mx EXCEPT ![t] = NoMx]
    /\ res' = [res EXCEPT ![t] = NoRes]
    /\ acq' = [acq EXCEPT ![t] = << >>]
    /\ bt' = [bt EXCEPT ![t] = NoBt]
    /\ refs' = IF op[t] = "ref" /\ res[t].ret = "X_LINK_PLATFORM_SUCCESS"
               THEN libusb_unref_device(refs, fr[t].devs[res[t].pdev])
               ELSE refs
    /\ UNCHANGED <<mutex, cache, client, bulk_chunklen>>

\* ----------------------------------------------------------- getUSBDevices
\* entry: the parameters, then the lock
E_Lock(t) ==
    /\ pc[t] = "lock"
    /\ op[t] = "enum"
    /\ lock_guard(t)
    /\ \E F \in FiltersNow, size \in CapacitiesNow :
          arg' = [arg EXCEPT ![t] = [filter |-> F, size |-> size, name |-> EmptyStr]]
    /\ pc' = [pc EXCEPT ![t] = "getlist"]
    /\ UNCHANGED <<cache, op, fr, mx, res, acq>>
    /\ UNCHANGED hostvars

\* faulty variant: the failure path also reports a count of zero
E_GetListFailsWritesCount(t) ==
    /\ pc[t] = "getlist"
    /\ op[t] = "enum"
    /\ res' = [res EXCEPT ![t].ret = "X_LINK_PLATFORM_ERROR",
                          ![t].amount = 0,
                          ![t].amountWritten = TRUE]
    /\ unlock_guard(t)
    /\ pc' = [pc EXCEPT ![t] = "done"]
    /\ UNCHANGED <<cache, op, arg, fr, mx, acq>>
    /\ UNCHANGED hostvars

\* libusb_get_device_list failed: return X_LINK_PLATFORM_ERROR
E_GetListFails(t) ==
    /\ pc[t] = "getlist"
    /\ op[t] = "enum"
    /\ res' = [res EXCEPT ![t].ret = "X_LINK_PLATFORM_ERROR"]
    /\ unlock_guard(t)
    /\ pc' = [pc EXCEPT ![t] = "done"]
    /\ UNCHANGED <<cache, op, arg, fr, mx, acq>>
    /\ UNCHANGED hostvars

\* faulty variant: the sweep starts without re-initialising the cache
E_GetListNoCacheInit(t) ==
    /\ pc[t] = "getlist"
    /\ op[t] = "enum"
    /\ \E list \in ListsNow :
          /\ fr' = [fr EXCEPT ![t] = [NoFrame EXCEPT !.devs = list, !.list = "held"]]
          /\ refs' = libusb_get_device_list(refs, list)
    /\ pc' = [pc EXCEPT ![t] = "loop"]
    /\ UNCHANGED <<mutex, cache, op, arg, mx, res, acq, client, bulk_chunklen, bt>>

\* libusb_get_device_list succeeded; usb_mx_id_cache_init(); numDevicesFound = 0
E_GetList(t) ==
    /\ pc[t] = "getlist"
    /\ op[t] = "enum"
    /\ \E list \in ListsNow :
          /\ fr' = [fr EXCEPT ![t] = [NoFrame EXCEPT !.devs = list, !.list = "held"]]
          /\ refs' = libusb_get_device_list(refs, list)
    /\ cache' = usb_mx_id_cache_init(cache)
    /\ pc' = [pc EXCEPT ![t] = "loop"]
    /\ UNCHANGED <<mutex, op, arg, mx, res, acq, client, bulk_chunklen, bt>>

\* faulty variant: the capacity test is off by one
LoopExitsOffByOne(f, size) ==
    \/ f.i >= Len(f.devs)
    \/ /\ ~f.devs[f.i + 1].nul
       /\ f.numDevicesFound > size

\* whether the loop is left at entry i: the list is exhausted, or the entry
\* is not null and the output buffer is full
LoopExits(f, size) ==
    \/ f.i >= Len(f.devs)
    \/ /\ ~f.devs[f.i + 1].nul
       /\ f.numDevicesFound >= size

\* faulty variant: the state filter is not applied
SkippedNoStateFilter(dev, F) ==
    \/ dev.nul
    \/ ~dev.desc
    \/ <<dev.vid, dev.pid>> \notin DOMAIN vidPidToDeviceState
    \/ /\ Len(F.name) > 0
       /\ F.name # getLibusbDevicePath(dev)

\* whether entry dev is skipped before its MxId is acquired
Skipped(dev, F) ==
    \/ dev.nul
    \/ ~dev.desc
    \/ <<dev.vid, dev.pid>> \notin DOMAIN vidPidToDeviceState
    \/ /\ F.state # "ANY"
       /\ vidPidToDeviceState[<<dev.vid, dev.pid>>] # F.state
    \/ /\ Len(F.name) > 0
       /\ F.name # getLibusbDevicePath(dev)

\* one pass of the for loop up to the call of getLibusbDeviceMxId
E_Loop(t) ==
    /\ pc[t] = "loop"
    /\ op[t] = "enum"
    /\ LET f == fr[t]
           F == arg[t].filter
       IN  IF LoopExits(f, arg[t].size)
           THEN /\ pc' = [pc EXCEPT ![t] = "free"]
                /\ UNCHANGED <<fr, mx>>
           ELSE IF Skipped(f.devs[f.i + 1], F)
           THEN /\ fr' = [fr EXCEPT ![t].i = f.i + 1]
                /\ UNCHANGED <<pc, mx>>
           ELSE /\ fr' = [fr EXCEPT
                            ![t].state =
                                vidPidToDeviceState[<<f.devs[f.i + 1].vid, f.devs[f.i + 1].pid>>],
                            ![t].devicePath = getLibusbDevicePath(f.devs[f.i + 1])]
                /\ mx' = [mx EXCEPT ![t] = NoMx]
                /\ pc' = [pc EXCEPT ![t] = "mxid"]
    /\ UNCHANGED <<mutex, cache, op, arg, res, acq>>
    /\ UNCHANGED hostvars

\* faulty variant: every failure is reported as X_LINK_ERROR
StatusOfNoPermissions(rc) ==
    IF rc = LIBUSB_SUCCESS THEN "X_LINK_SUCCESS" ELSE "X_LINK_ERROR"

\* X_LINK status of a libusb return code
StatusOf(rc) ==
    IF rc = LIBUSB_SUCCESS THEN "X_LINK_SUCCESS"
    ELSE IF rc = LIBUSB_ERROR_ACCESS THEN "X_LINK_INSUFFICIENT_PERMISSIONS"
    ELSE "X_LINK_ERROR"

\* faulty variant: the mxid filter is applied only to a device whose mxid is known
MxIdRejectedIfKnown(F, mxId) ==
    /\ Len(F.mxid) > 0
    /\ Len(mxId) > 0
    /\ F.mxid # mxId

\* whether the mxid filter rejects the acquired mxid
MxIdRejected(F, mxId) ==
    /\ Len(F.mxid) > 0
    /\ F.mxid # mxId

\* the record filled out for the current device
FoundDevice(f, m) ==
    [status |-> StatusOf(m.libusb_rc), platform |-> "X_LINK_MYRIAD_X",
     protocol |-> "X_LINK_USB_VSC", state |-> f.state,
     name |-> f.devicePath, mxid |-> m.outMxId]

\* the rest of the pass: status, mxid filter, the record, numDevicesFound++;
\* the locals of the acquisition are gone
E_Record(t) ==
    /\ pc[t] = "record"
    /\ op[t] = "enum"
    /\ LET f == fr[t]
       IN  IF MxIdRejected(arg[t].filter, mx[t].outMxId)
           THEN /\ fr' = [fr EXCEPT ![t].i = f.i + 1]
                /\ UNCHANGED res
           ELSE /\ res' = [res EXCEPT ![t].recs =
                             (f.numDevicesFound :> FoundDevice(f, mx[t])) @@ @]
                /\ fr' = [fr EXCEPT ![t].i = f.i + 1,
                                    ![t].numDevicesFound = f.numDevicesFound + 1]
    /\ mx' = [mx EXCEPT ![t] = NoMx]
    /\ pc' = [pc EXCEPT ![t] = "loop"]
    /\ UNCHANGED <<mutex, cache, op, arg, acq>>
    /\ UNCHANGED hostvars

\* libusb_free_device_list; *out_amountOfFoundDevices; return success
E_Free(t) ==
    /\ pc[t] = "free"
    /\ op[t] = "enum"
    /\ fr' = [fr EXCEPT ![t].list = "freed"]
    /\ refs' = libusb_free_device_list(refs, fr[t].devs)
    /\ res' = [res EXCEPT ![t].amount = fr[t].numDevicesFound,
                          ![t].amountWritten = TRUE,
                          ![t].ret = "X_LINK_PLATFORM_SUCCESS"]
    /\ unlock_guard(t)
    /\ pc' = [pc EXCEPT ![t] = "done"]
    /\ UNCHANGED <<cache, op, arg, mx, acq, client, bulk_chunklen, bt>>

\* ----------------------------------------------------- getLibusbDeviceMxId
\* the device the enumerator is at
CurrentDevice(t) == fr[t].devs[fr[t].i + 1]

\* one entry of the acquisition history; closes: the libusb_close calls made;
\* atStore: the state of the handle when the cache store was called, "none"
\* when it was not called
Acquired(t, hit, opens, rc, mxid, stored, closes, atStore) ==
    [idx |-> fr[t].i, path |-> fr[t].devicePath, hit |-> hit, opens |-> opens,
     exchanged |-> mx[t].tried, rc |-> rc, mxid |-> mxid, stored |-> stored,
     closes |-> closes, atStore |-> atStore]

\* cache hit: return the cached serial
M_CacheHit(t) ==
    /\ pc[t] = "mxid"
    /\ usb_mx_id_cache_found(cache, fr[t].devicePath)
    /\ LET cached == usb_mx_id_cache_get_entry(cache, fr[t].devicePath)
       IN  /\ mx' = [mx EXCEPT ![t].mxId = cached,
                               ![t].outMxId = cached,
                               ![t].libusb_rc = LIBUSB_SUCCESS]
           /\ acq' = [acq EXCEPT ![t] =
                        Append(@, Acquired(t, TRUE, mx[t].opens, LIBUSB_SUCCESS, cached,
                                            FALSE, mx[t].closes, "none"))]
    /\ pc' = [pc EXCEPT ![t] = "record"]
    /\ UNCHANGED <<mutex, cache, op, arg, fr, res>>
    /\ UNCHANGED hostvars

\* cache miss and libusb_open fails: return its error, outMxId stays empty
M_OpenFails(t) ==
    /\ pc[t] = "mxid"
    /\ ~usb_mx_id_cache_found(cache, fr[t].devicePath)
    /\ \E e \in ErrorsNow :
          /\ mx' = [mx EXCEPT ![t].libusb_rc = e, ![t].opens = @ + 1]
          /\ acq' = [acq EXCEPT ![t] =
                       Append(@, Acquired(t, FALSE, mx[t].opens + 1, e, EmptyStr,
                                           FALSE, mx[t].closes, "none"))]
    /\ pc' = [pc EXCEPT ![t] = "record"]
    /\ UNCHANGED <<mutex, cache, op, arg, fr, res>>
    /\ UNCHANGED hostvars

\* faulty variant: the device is opened without looking at the cache
M_OpenWithoutLookup(t) ==
    /\ pc[t] = "mxid"
    /\ mx' = [mx EXCEPT ![t].handle = "open", ![t].opens = @ + 1]
    /\ pc' = [pc EXCEPT ![t] = "attempt"]
    /\ UNCHANGED <<mutex, cache, op, arg, fr, res, acq>>
    /\ UNCHANGED hostvars

\* cache miss and libusb_open succeeds: enter the retry loop
M_Open(t) ==
    /\ pc[t] = "mxid"
    /\ ~usb_mx_id_cache_found(cache, fr[t].devicePath)
    /\ mx' = [mx EXCEPT ![t].handle = "open", ![t].opens = @ + 1]
    /\ pc' = [pc EXCEPT ![t] = "attempt"]
    /\ UNCHANGED <<mutex, cache, op, arg, fr, res, acq>>
    /\ UNCHANGED hostvars

\* rbuf[8] &= 0xF0, then each of the 9 bytes as "%02X"
RECURSIVE HexOfBytes(_)
HexOfBytes(bytes) ==
    IF bytes = << >> THEN EmptyStr
    ELSE Hex02X(Head(bytes)) \o HexOfBytes(Tail(bytes))

RenderMxId(rbuf) ==
    HexOfBytes([SubSeq(rbuf, 1, expectedMxIdReadSize) EXCEPT
                   ![expectedMxIdReadSize] = MaskF0(@)])

\* one call of the backend as the loop body made it: the function, the
\* endpoint of a bulk transfer, the code it returned, the number it gave back
\* (active configuration or bytes transferred) and the bytes it read
Called(fn, ep, rc, n, data) ==
    [fn |-> fn, ep |-> ep, rc |-> rc, n |-> n, data |-> data]

\* what libusb_bulk_transfer may answer to a write of len bytes
WriteAnswers(len) ==
    {[rc |-> LIBUSB_SUCCESS, n |-> len, data |-> << >>]}
    \cup {[rc |-> e, n |-> 0, data |-> << >>] : e \in TransferErrorsNow}
    \cup IF EnumOnly
         THEN {[rc |-> LIBUSB_SUCCESS, n |-> len - 1, data |-> << >>],
               [rc |-> LIBUSB_ERROR_NO_DEVICE, n |-> 0, data |-> << >>]}
         ELSE {}

\* and to the read of up to sizeof(rbuf) bytes: the count and the first
\* expectedMxIdReadSize bytes of the buffer
ReadAnswers ==
    {[rc |-> LIBUSB_SUCCESS, n |-> expectedMxIdReadSize, data |-> r] : r \in ResponsesNow}
    \cup {[rc |-> e, n |-> 0, data |-> << >>] : e \in TransferErrorsNow}
    \cup IF EnumOnly
         THEN {[rc |-> LIBUSB_SUCCESS, n |-> n, data |-> r] :
                  n \in {expectedMxIdReadSize - 1, expectedMxIdReadSize + 1},
                  r \in ResponsesNow}
         ELSE {}

\* faulty variant: only the return code of a transfer is looked at
TransferFailedByCodeOnly(a, expected) == a.rc < 0

\* libusb_rc < 0 || expected != transferred
TransferFailed(a, expected) == a.rc < 0 \/ expected # a.n

\* the calls up to a configuration that is 1: it was 1 already, or it was
\* set to 1
ConfigurationDone ==
    {<<Called("libusb_get_configuration", 0, LIBUSB_SUCCESS, 1, << >>)>>}
    \cup IF EnumOnly
         THEN {<<Called("libusb_get_configuration", 0, LIBUSB_SUCCESS, 0, << >>),
                 Called("libusb_set_configuration", 0, LIBUSB_SUCCESS, 1, << >>)>>}
         ELSE {}

InterfaceClaimed ==
    {c \o <<Called("libusb_claim_interface", 0, LIBUSB_SUCCESS, 0, << >>)>> :
        c \in ConfigurationDone}

\* the calls up to each bulk transfer, with the transfer's answer
RequestTried ==
    {[calls |-> c \o <<Called("libusb_bulk_transfer", send_ep, a.rc, a.n, a.data)>>,
      a |-> a] :
        c \in InterfaceClaimed, a \in WriteAnswers(usb_mx_id_get_payload_size)}

ResponseTried ==
    {[calls |-> q.calls \o <<Called("libusb_bulk_transfer", recv_ep, a.rc, a.n, a.data)>>,
      a |-> a] :
        q \in {x \in RequestTried : ~TransferFailed(x.a, usb_mx_id_get_payload_size)},
        a \in ReadAnswers}

EndTried ==
    {[calls |-> q.calls \o <<Called("libusb_bulk_transfer", send_ep, a.rc, a.n, a.data)>>,
      a |-> a, rbuf |-> q.a.data] :
        q \in {x \in ResponseTried : ~TransferFailed(x.a, expectedMxIdReadSize)},
        a \in WriteAnswers(usb_mx_id_get_payload_end_size)}

\* The ways one execution of the loop body can end for an UNBOOTED device:
\* the step it ended at, libusb_rc, the local buffer, whether interface 0
\* is claimed on the handle, and the backend calls it made.  A transfer fails
\* with an error code or with the wrong number of bytes; either way libusb_rc
\* is set to -1.
UnbootedOutcomes(m) ==
    {[stage |-> "get_configuration", rc |-> e, mxId |-> m.mxId, rbuf |-> m.rbuf,
      claimed |-> m.claimed,
      calls |-> <<Called("libusb_get_configuration", 0, e, -1, << >>)>>] :
        e \in ConfigErrorsNow}
    \cup {[stage |-> "set_configuration", rc |-> e, mxId |-> m.mxId, rbuf |-> m.rbuf,
           claimed |-> m.claimed,
           calls |-> <<Called("libusb_get_configuration", 0, LIBUSB_SUCCESS, 0, << >>),
                       Called("libusb_set_configuration", 0, e, 1, << >>)>>] :
             e \in ConfigErrorsNow}
    \cup {[stage |-> "claim_interface", rc |-> e, mxId |-> m.mxId, rbuf |-> m.rbuf,
           claimed |-> m.claimed,
           calls |-> c \o <<Called("libusb_claim_interface", 0, e, 0, << >>)>>] :
             e \in ErrorsNow, c \in ConfigurationDone}
    \cup {[stage |-> "request", rc |-> LIBUSB_ERROR_IO, mxId |-> m.mxId, rbuf |-> m.rbuf,
           claimed |-> TRUE, calls |-> q.calls] :
             q \in {x \in RequestTried : TransferFailed(x.a, usb_mx_id_get_payload_size)}}
    \cup {[stage |-> "response", rc |-> LIBUSB_ERROR_IO, mxId |-> m.mxId, rbuf |-> m.rbuf,
           claimed |-> TRUE, calls |-> q.calls] :
             q \in {x \in ResponseTried : TransferFailed(x.a, expectedMxIdReadSize)}}
    \cup {[stage |-> "end", rc |-> LIBUSB_ERROR_IO, mxId |-> m.mxId, rbuf |-> m.rbuf,
           claimed |-> TRUE, calls |-> q.calls] :
             q \in {x \in EndTried : TransferFailed(x.a, usb_mx_id_get_payload_end_size)}}
    \cup {[stage |-> "done", rc |-> LIBUSB_SUCCESS, mxId |-> RenderMxId(q.rbuf),
           rbuf |-> q.rbuf, claimed |-> FALSE,
           calls |-> q.calls \o <<Called("libusb_release_interface", 0, LIBUSB_SUCCESS, 0, << >>)>>] :
             q \in {x \in EndTried : ~TransferFailed(x.a, usb_mx_id_get_payload_end_size)}}

\* the same for a BOOTED or BOOTLOADER device: the ASCII serial descriptor
DescriptorOutcomes(m, dev) ==
    {[stage |-> "string_descriptor", rc |-> e, mxId |-> b, rbuf |-> m.rbuf,
      claimed |-> m.claimed,
      calls |-> <<Called("libusb_get_string_descriptor_ascii", 0, e, 0, << >>)>>] :
        e \in ErrorsNow, b \in {m.mxId, PartialBytes}}
    \cup {[stage |-> "done", rc |-> LIBUSB_SUCCESS, mxId |-> dev.serial,
           rbuf |-> m.rbuf, claimed |-> m.claimed,
           calls |-> <<Called("libusb_get_string_descriptor_ascii", 0,
                               LIBUSB_SUCCESS, Len(dev.serial), << >>)>>]}

AttemptOutcomes(state, m, dev) ==
    IF state = "UNBOOTED" THEN UnbootedOutcomes(m) ELSE DescriptorOutcomes(m, dev)

\* One execution of the do-while body and of its condition: the loop goes
\* round again only after a failure and while the 5 ms budget lasts (again).
M_Attempt(t) ==
    /\ pc[t] = "attempt"
    /\ \E o \in AttemptOutcomes(fr[t].state, mx[t], CurrentDevice(t)), again \in BOOLEAN :
          /\ again => o.rc # 0
          /\ mx' = [mx EXCEPT ![t].libusb_rc = o.rc,
                              ![t].mxId = o.mxId,
                              ![t].rbuf = o.rbuf,
                              ![t].stage = o.stage,
                              ![t].claimed = o.claimed,
                              ![t].calls = o.calls,
                              ![t].tried = TRUE]
          /\ pc' = [pc EXCEPT ![t] = IF again THEN "attempt" ELSE "close"]
    /\ UNCHANGED <<mutex, cache, op, arg, fr, res, acq>>
    /\ UNCHANGED hostvars

\* faulty variant: the local buffer is handed back whatever the outcome
ReturnedLocalBuffer(m) == m.mxId

\* the mxid handed back after the loop
ReturnedMxId(m) == IF m.libusb_rc # 0 THEN m.outMxId ELSE m.mxId

\* faulty variant: the handle is closed only when the loop succeeded
M_CloseOnSuccessOnly(t) ==
    /\ pc[t] = "close"
    /\ LET ok == mx[t].libusb_rc = 0
           closed == IF ok
                     THEN [mx[t] EXCEPT !.handle = "closed", !.closes = @ + 1]
                     ELSE mx[t]
           stored == ok /\ usb_mx_id_cache_store_index(cache) >= 0
       IN  /\ mx' = [mx EXCEPT ![t] = [closed EXCEPT !.outMxId = ReturnedMxId(closed)]]
           /\ cache' = IF ok
                       THEN usb_mx_id_cache_store_entry(cache, closed.mxId, fr[t].devicePath)
                       ELSE cache
           /\ acq' = [acq EXCEPT ![t] =
                        Append(@, Acquired(t, FALSE, closed.opens, closed.libusb_rc,
                                            ReturnedMxId(closed), stored, closed.closes,
                                            IF ok THEN closed.handle ELSE "none"))]
    /\ pc' = [pc EXCEPT ![t] = "record"]
    /\ UNCHANGED <<mutex, op, arg, fr, res>>
    /\ UNCHANGED hostvars

\* libusb_close; on failure return libusb_rc; on success store into the
\* cache (a full cache is ignored) and return the serial
M_Close(t) ==
    /\ pc[t] = "close"
    /\ LET closed == [mx[t] EXCEPT !.handle = "closed", !.closes = @ + 1]
           ok == closed.libusb_rc = 0
           stored == ok /\ usb_mx_id_cache_store_index(cache) >= 0
       IN  /\ mx' = [mx EXCEPT ![t] = [closed EXCEPT !.outMxId = ReturnedMxId(closed)]]
           /\ cache' = IF ok
                       THEN usb_mx_id_cache_store_entry(cache, closed.mxId, fr[t].devicePath)
                       ELSE cache
           /\ acq' = [acq EXCEPT ![t] =
                        Append(@, Acquired(t, FALSE, closed.opens, closed.libusb_rc,
                                            ReturnedMxId(closed), stored, closed.closes,
                                            IF ok THEN closed.handle ELSE "none"))]
    /\ pc' = [pc EXCEPT ![t] = "record"]
    /\ UNCHANGED <<mutex, op, arg, fr, res>>
    /\ UNCHANGED hostvars

\* --------------------------------------------------- refLibusbDeviceByName
R_Lock(t) ==
    /\ pc[t] = "lock"
    /\ InLookup(t)
    /\ lock_guard(t)
    /\ \E name \in (IF op[t] = "ref" THEN LookupNamesNow ELSE {bt[t].addr}) :
          arg' = [arg EXCEPT ![t] = [NoArg EXCEPT !.name = name]]
    /\ pc' = [pc EXCEPT ![t] = "getlist"]
    /\ UNCHANGED <<cache, op, fr, mx, res, acq>>
    /\ UNCHANGED hostvars

R_GetListFails(t) ==
    /\ pc[t] = "getlist"
    /\ InLookup(t)
    /\ res' = [res EXCEPT ![t].ret = "X_LINK_PLATFORM_ERROR"]
    /\ unlock_guard(t)
    /\ pc' = [pc EXCEPT ![t] = AfterLookup(t)]
    /\ UNCHANGED <<cache, op, arg, fr, mx, acq>>
    /\ UNCHANGED hostvars

R_GetList(t) ==
    /\ pc[t] = "getlist"
    /\ InLookup(t)
    /\ \E list \in ListsNow :
          /\ fr' = [fr EXCEPT ![t] = [NoFrame EXCEPT !.devs = list, !.list = "held"]]
          /\ refs' = libusb_get_device_list(refs, list)
    /\ pc' = [pc EXCEPT ![t] = "search"]
    /\ UNCHANGED <<mutex, cache, op, arg, mx, res, acq, client, bulk_chunklen, bt>>

\* the entries the loop would stop at
Matches(devs, name) ==
    {k \in 1..Len(devs) :
        /\ ~devs[k].nul
        /\ Len(name) > 0
        /\ name = getLibusbDevicePath(devs[k])}

\* the for loop: the first match is referenced and stored through pdev
R_Search(t) ==
    /\ pc[t] = "search"
    /\ LET hits == Matches(fr[t].devs, arg[t].name)
       IN  IF hits = {}
           THEN /\ fr' = [fr EXCEPT ![t].i = Len(fr[t].devs)]
                /\ UNCHANGED <<res, refs>>
           ELSE LET k == CHOOSE k \in hits : \A m \in hits : k <= m
                IN  /\ fr' = [fr EXCEPT ![t].i = k - 1, ![t].found = TRUE]
                    /\ refs' = libusb_ref_device(refs, fr[t].devs[k])
                    /\ res' = [res EXCEPT ![t].pdev = k]
    /\ pc' = [pc EXCEPT ![t] = "free"]
    /\ UNCHANGED <<mutex, cache, op, arg, mx, acq, client, bulk_chunklen, bt>>

\* libusb_free_device_list, then the return code
R_Free(t) ==
    /\ pc[t] = "free"
    /\ InLookup(t)
    /\ fr' = [fr EXCEPT ![t].list = "freed"]
    /\ refs' = libusb_free_device_list(refs, fr[t].devs)
    /\ res' = [res EXCEPT ![t].ret =
                 IF fr[t].found THEN "X_LINK_PLATFORM_SUCCESS"
                 ELSE "X_LINK_PLATFORM_DEVICE_NOT_FOUND"]
    /\ unlock_guard(t)
    /\ pc' = [pc EXCEPT ![t] = AfterLookup(t)]
    /\ UNCHANGED <<cache, op, arg, mx, acq, client, bulk_chunklen, bt>>

\* ---------------------------------------------------------------- usb_boot
\* what the client passes: a path, and an image or buffer length
HostAddrs == {<<"1", ".", "2">>, <<"9">>, EmptyStr}
FileSizes ==
    {0, 1, ZLP_MODULUS, DEFAULT_CHUNKSZ, DEFAULT_CHUNKSZ + ZLP_MODULUS,
     2 * DEFAULT_CHUNKSZ}
PipeSizes == {0, 1, DEFAULT_CHUNKSZ, DEFAULT_CHUNKSZ + 1, 2 * DEFAULT_CHUNKSZ}

\* wMaxPacketSize of the bulk OUT endpoint, and its address
MaxPackets == {64, 512}
BulkErrors == {LIBUSB_ERROR_TIMEOUT, LIBUSB_ERROR_NO_DEVICE, LIBUSB_ERROR_IO}
HostAddrsNow == IF Live THEN {<<"1", ".", "2">>} ELSE HostAddrs
FileSizesNow == IF Live THEN {1} ELSE FileSizes
MaxPacketsNow == IF Live THEN {DEFAULT_CHUNKSZ} ELSE MaxPackets
BulkErrorsNow == IF Live THEN {LIBUSB_ERROR_TIMEOUT} ELSE BulkErrors

\* entry of usb_boot, usbLinkOpen, usbLinkBootBootloader, usb_read, usb_write
H_Enter(t) ==
    /\ pc[t] = "enter"
    /\ \/ /\ op[t] = "boot"
          /\ \E a \in HostAddrsNow, n \in FileSizesNow :
                bt' = [bt EXCEPT ![t] = [NoBt EXCEPT !.addr = a, !.size = n]]
          /\ pc' = [pc EXCEPT ![t] = "lock"]
       \/ /\ op[t] \in {"open", "bootbl"}
          /\ \E a \in HostAddrsNow :
                bt' = [bt EXCEPT ![t] = [NoBt EXCEPT !.addr = a]]
          /\ pc' = [pc EXCEPT ![t] = "lock"]
       \/ /\ op[t] \in {"read", "write"}
          /\ \E n \in PipeSizes :
                bt' = [bt EXCEPT ![t] = [NoBt EXCEPT !.size = n]]
          /\ pc' = [pc EXCEPT ![t] = "pipe"]
    /\ UNCHANGED <<mutex, cache, op, arg, fr, mx, res, acq, client, refs, bulk_chunklen>>

\* the device refLibusbDeviceByName stored through pdev
LookedUp(t) == fr[t].devs[res[t].pdev]

\* Phase A, after one refLibusbDeviceByName: found: go on; not found: poll
\* again, or the connect timeout is over and dev is still null
B_PhaseA(t) ==
    /\ pc[t] = "polled"
    /\ op[t] = "boot"
    /\ IF res[t].ret = "X_LINK_PLATFORM_SUCCESS"
       THEN /\ bt' = [bt EXCEPT ![t].hasDev = TRUE, ![t].dev = LookedUp(t)]
            /\ pc' = [pc EXCEPT ![t] = "openloop"]
       ELSE \E again \in BOOLEAN :
              IF again
              THEN /\ pc' = [pc EXCEPT ![t] = "lock"]
                   /\ UNCHANGED bt
              ELSE /\ bt' = [bt EXCEPT ![t].rc = "X_LINK_PLATFORM_DEVICE_NOT_FOUND"]
                   /\ pc' = [pc EXCEPT ![t] = "done"]
    /\ UNCHANGED <<mutex, cache, op, arg, fr, mx, res, acq, client, refs, bulk_chunklen>>

\* The ways usb_open_device can end: the handle it leaves behind (stage: the
\* call it ended at), and on success the endpoint found and its packet size.
usb_open_device ==
    {[h |-> [state |-> "none", claimed |-> FALSE, closes |-> 0, stage |-> "libusb_open"],
      endpoint |-> 0, wMaxPacketSize |-> 0]}
    \cup {[h |-> [state |-> "closed", claimed |-> FALSE, closes |-> 1, stage |-> s],
           endpoint |-> 0, wMaxPacketSize |-> 0] :
            s \in IF Live THEN {"claim_interface"}
                  ELSE {"get_configuration", "set_configuration", "claim_interface"}}
    \cup {[h |-> [state |-> "closed", claimed |-> TRUE, closes |-> 1, stage |-> s],
           endpoint |-> 0, wMaxPacketSize |-> 0] :
            s \in IF Live THEN {"get_config_descriptor"}
                  ELSE {"get_config_descriptor", "no_bulk_out_endpoint"}}
    \cup {[h |-> [state |-> "open", claimed |-> TRUE, closes |-> 0, stage |-> "done"],
           endpoint |-> USB_ENDPOINT_OUT, wMaxPacketSize |-> m] : m \in MaxPacketsNow}

\* Phase B, one round of the loop: usb_open_device, then break with a
\* handle, or go round again, or the connect timeout is over
B_OpenDevice(t) ==
    /\ pc[t] = "openloop"
    /\ \E o \in usb_open_device, again \in BOOLEAN :
          /\ again => o.h.state # "open"
          /\ bt' = [bt EXCEPT ![t].h = o.h,
                              ![t].opened = TRUE,
                              ![t].endpoint = IF o.h.state = "open" THEN o.endpoint ELSE @]
          /\ bulk_chunklen' = IF o.h.state = "open" THEN o.wMaxPacketSize
                              ELSE bulk_chunklen
          /\ pc' = [pc EXCEPT ![t] = IF again THEN "openloop" ELSE "opened"]
    /\ UNCHANGED <<mutex, cache, op, arg, fr, mx, res, acq, client, refs>>

\* the chunk length send_file works with: its local bulk_chunklen
send_file_chunklen(bcd) == IF bcd < BCD_USB2 THEN USB1_CHUNKSZ ELSE DEFAULT_CHUNKSZ

\* faulty variant: send_file is entered whether or not there is a handle
B_AfterOpenSendsAnyway(t) ==
    /\ pc[t] = "opened"
    /\ bt' = [bt EXCEPT ![t].sends = @ + 1,
                        ![t].chunk = send_file_chunklen(bcdusb),
                        ![t].send_zlp = (bt[t].size % ZLP_MODULUS = 0),
                        ![t].twb = 0]
    /\ pc' = [pc EXCEPT ![t] = "send"]
    /\ UNCHANGED <<mutex, cache, op, arg, fr, mx, res, acq, client, refs, bulk_chunklen>>

\* if (h): enter send_file; else: INSUFFICIENT_PERMISSIONS, unref, return
B_AfterOpen(t) ==
    /\ pc[t] = "opened"
    /\ IF bt[t].h.state = "open"
       THEN /\ bt' = [bt EXCEPT ![t].sends = @ + 1,
                                ![t].chunk = send_file_chunklen(bcdusb),
                                ![t].send_zlp = (bt[t].size % ZLP_MODULUS = 0),
                                ![t].twb = 0]
            /\ pc' = [pc EXCEPT ![t] = "send"]
            /\ UNCHANGED refs
       ELSE /\ bt' = [bt EXCEPT ![t].rc = "X_LINK_PLATFORM_INSUFFICIENT_PERMISSIONS",
                                ![t].unrefs = @ + 1]
            /\ refs' = libusb_unref_device(refs, bt[t].dev)
            /\ pc' = [pc EXCEPT ![t] = "done"]
    /\ UNCHANGED <<mutex, cache, op, arg, fr, mx, res, acq, client, bulk_chunklen>>

\* what the backend can answer to a bulk transfer of wb bytes: the return
\* code and the bytes transferred
TransferOutcomes(wb) ==
    {[rc |-> LIBUSB_SUCCESS, done |-> d] : d \in {wb, wb \div 2}}
    \cup {[rc |-> e, done |-> d] : e \in BulkErrorsNow, d \in {0, wb \div 2}}

\* faulty variant: the trailer's return code is checked like a chunk's
SendStepChecksTrailer(b, wb, o, late) ==
    IF o.rc # 0 \/ wb # o.done
    THEN IF o.rc = LIBUSB_ERROR_NO_DEVICE THEN "0"
         ELSE IF o.rc = LIBUSB_ERROR_TIMEOUT THEN "USB_BOOT_TIMEOUT"
         ELSE "USB_BOOT_ERROR"
    ELSE IF late THEN "USB_BOOT_TIMEOUT"
    ELSE IF wb = 0 THEN "0"
    ELSE IF b.twb + o.done < b.size \/ b.send_zlp THEN "more"
    ELSE "0"

\* faulty variant: a short write without an error code is carried on from
SendStepAcceptsShort(b, wb, o, late) ==
    IF o.rc # 0 /\ wb # 0
    THEN IF o.rc = LIBUSB_ERROR_NO_DEVICE THEN "0"
         ELSE IF o.rc = LIBUSB_ERROR_TIMEOUT THEN "USB_BOOT_TIMEOUT"
         ELSE "USB_BOOT_ERROR"
    ELSE IF late THEN "USB_BOOT_TIMEOUT"
    ELSE IF wb = 0 THEN "0"
    ELSE IF b.twb + o.done < b.size \/ b.send_zlp THEN "more"
    ELSE "0"

\* what send_file does after a transfer of wb bytes answered by o; late: the
\* send-file timeout is over.  "more": the loop goes on.
SendStep(b, wb, o, late) ==
    IF (o.rc # 0 \/ wb # o.done) /\ wb # 0
    THEN IF o.rc = LIBUSB_ERROR_NO_DEVICE THEN "0"
         ELSE IF o.rc = LIBUSB_ERROR_TIMEOUT THEN "USB_BOOT_TIMEOUT"
         ELSE "USB_BOOT_ERROR"
    ELSE IF late THEN "USB_BOOT_TIMEOUT"
    ELSE IF wb = 0 THEN "0"
    ELSE IF b.twb + o.done < b.size \/ b.send_zlp THEN "more"
    ELSE "0"

\* one round of send_file's while loop, whose condition holds at entry
S_Transfer(t) ==
    /\ pc[t] = "send"
    /\ LET b == bt[t]
           wb == Min(b.size - b.twb, b.chunk)
       IN  \E o \in TransferOutcomes(wb), late \in BOOLEAN :
             LET step == SendStep(b, wb, o, late)
             IN  /\ bt' = [bt EXCEPT
                             ![t].log = Append(@, [ep |-> b.endpoint, off |-> b.twb,
                                                   len |-> wb, done |-> o.done,
                                                   rc |-> o.rc]),
                             ![t].twb = IF step = "more" THEN @ + o.done ELSE @,
                             ![t].rc = IF step = "more" THEN @ ELSE step]
                 /\ pc' = [pc EXCEPT ![t] = IF step = "more" THEN "send" ELSE "sent"]
    /\ UNCHANGED <<mutex, cache, op, arg, fr, mx, res, acq, client, refs, bulk_chunklen>>

\* after send_file: release interface 0, close the handle, unref, return rc
B_Close(t) ==
    /\ pc[t] = "sent"
    /\ bt' = [bt EXCEPT ![t].h.claimed = FALSE,
                        ![t].h.state = "closed",
                        ![t].h.closes = @ + 1,
                        ![t].unrefs = @ + 1]
    /\ refs' = libusb_unref_device(refs, bt[t].dev)
    /\ pc' = [pc EXCEPT ![t] = "done"]
    /\ UNCHANGED <<mutex, cache, op, arg, fr, mx, res, acq, client, bulk_chunklen>>

\* ------------------------------------------------------------- usbLinkOpen
\* after one refLibusbDeviceByName: found: go on; else poll again, or the
\* open timeout is over: return nullptr
L_Polled(t) ==
    /\ pc[t] = "polled"
    /\ op[t] = "open"
    /\ IF res[t].ret = "X_LINK_PLATFORM_SUCCESS"
       THEN /\ bt' = [bt EXCEPT ![t].found = TRUE, ![t].hasDev = TRUE,
                                ![t].dev = LookedUp(t)]
            /\ pc' = [pc EXCEPT ![t] = "linkopen"]
       ELSE \E again \in BOOLEAN :
              IF again
              THEN /\ pc' = [pc EXCEPT ![t] = "lock"]
                   /\ UNCHANGED bt
              ELSE /\ bt' = [bt EXCEPT ![t].rc = "nullptr"]
                   /\ pc' = [pc EXCEPT ![t] = "done"]
    /\ UNCHANGED <<mutex, cache, op, arg, fr, mx, res, acq, client, refs, bulk_chunklen>>

\* The ways the rest of usbLinkOpen can end: libusb_open fails; it succeeds
\* and claiming interface 0 fails; both succeed.  The reference is dropped
\* in each.
usbLinkOpenOutcomes ==
    {[h |-> [state |-> "none", claimed |-> FALSE, closes |-> 0, stage |-> "libusb_open"],
      rc |-> "nullptr"],
     [h |-> [state |-> "closed", claimed |-> FALSE, closes |-> 1, stage |-> "claim_interface"],
      rc |-> "nullptr"],
     [h |-> [state |-> "open", claimed |-> TRUE, closes |-> 0, stage |-> "done"],
      rc |-> "handle"]}

\* faulty variant: the reference is kept when libusb_open fails
L_OpenKeepsReference(t) ==
    /\ pc[t] = "linkopen"
    /\ \E o \in usbLinkOpenOutcomes :
          /\ bt' = [bt EXCEPT ![t].h = o.h, ![t].opened = TRUE, ![t].rc = o.rc,
                              ![t].unrefs = IF o.h.state = "none" THEN @ ELSE @ + 1]
          /\ refs' = IF o.h.state = "none" THEN refs
                     ELSE libusb_unref_device(refs, bt[t].dev)
    /\ pc' = [pc EXCEPT ![t] = "done"]
    /\ UNCHANGED <<mutex, cache, op, arg, fr, mx, res, acq, client, bulk_chunklen>>

L_Open(t) ==
    /\ pc[t] = "linkopen"
    /\ \E o \in usbLinkOpenOutcomes :
          bt' = [bt EXCEPT ![t].h = o.h, ![t].opened = TRUE, ![t].rc = o.rc,
                           ![t].unrefs = @ + 1]
    /\ refs' = libusb_unref_device(refs, bt[t].dev)
    /\ pc' = [pc EXCEPT ![t] = "done"]
    /\ UNCHANGED <<mutex, cache, op, arg, fr, mx, res, acq, client, bulk_chunklen>>

\* --------------------------------------------------- usbLinkBootBootloader
\* after the one refLibusbDeviceByName: dev is null: return 0
BB_Polled(t) ==
    /\ pc[t] = "polled"
    /\ op[t] = "bootbl"
    /\ IF res[t].ret = "X_LINK_PLATFORM_SUCCESS"
       THEN /\ bt' = [bt EXCEPT ![t].hasDev = TRUE, ![t].dev = LookedUp(t)]
            /\ pc' = [pc EXCEPT ![t] = "blopen"]
       ELSE /\ bt' = [bt EXCEPT ![t].rc = "false"]
            /\ pc' = [pc EXCEPT ![t] = "done"]
    /\ UNCHANGED <<mutex, cache, op, arg, fr, mx, res, acq, client, refs, bulk_chunklen>>

\* libusb_open fails: unref, return 0; else the control transfer, whose
\* result is ignored, then unref and close, return true
usbLinkBootBootloaderOutcomes ==
    {[h |-> [state |-> "none", claimed |-> FALSE, closes |-> 0, stage |-> "libusb_open"],
      rc |-> "false"],
     [h |-> [state |-> "closed", claimed |-> FALSE, closes |-> 1, stage |-> "done"],
      rc |-> "true"]}

BB_Open(t) ==
    /\ pc[t] = "blopen"
    /\ \E o \in usbLinkBootBootloaderOutcomes :
          bt' = [bt EXCEPT ![t].h = o.h, ![t].opened = TRUE, ![t].rc = o.rc,
                           ![t].unrefs = @ + 1]
    /\ refs' = libusb_unref_device(refs, bt[t].dev)
    /\ pc' = [pc EXCEPT ![t] = "done"]
    /\ UNCHANGED <<mutex, cache, op, arg, fr, mx, res, acq, client, bulk_chunklen>>

\* ---------------------------------------------------- usb_read, usb_write
\* what the backend can answer to a pipe transfer of ss bytes
PipeOutcomes(ss) ==
    {[rc |-> LIBUSB_SUCCESS, done |-> d] : d \in {ss, ss \div 2, 0}}
    \cup {[rc |-> e, done |-> 0] : e \in BulkErrorsNow}

\* faulty variant: the two endpoints are swapped
PipeEndpointSwapped(t) == IF op[t] = "read" THEN USB_ENDPOINT_OUT ELSE USB_ENDPOINT_IN

PipeEndpoint(t) == IF op[t] = "read" THEN USB_ENDPOINT_IN ELSE USB_ENDPOINT_OUT

\* One test of the while condition and, if size > 0, one round of the loop.
\* twb is the number of bytes the data pointer has moved, size - twb what
\* the code has left in size.
P_Transfer(t) ==
    /\ pc[t] = "pipe"
    /\ LET b == bt[t]
           left == b.size - b.twb
           ss == Min(left, DEFAULT_CHUNKSZ)
       IN  IF left = 0
           THEN /\ bt' = [bt EXCEPT ![t].rc = "returned", ![t].ret = 0]
                /\ pc' = [pc EXCEPT ![t] = "done"]
           ELSE /\ Len(b.log) < MaxTransfers
                /\ \E o \in PipeOutcomes(ss) :
                      /\ bt' = [bt EXCEPT
                                  ![t].log = Append(@, [ep |-> PipeEndpoint(t),
                                                        off |-> b.twb, len |-> ss,
                                                        done |-> o.done, rc |-> o.rc]),
                                  ![t].twb = IF o.rc = 0 THEN @ + o.done ELSE @,
                                  ![t].rc = IF o.rc = 0 THEN @ ELSE "returned",
                                  ![t].ret = o.rc]
                      /\ pc' = [pc EXCEPT ![t] = IF o.rc = 0 THEN "pipe" ELSE "done"]
    /\ UNCHANGED <<mutex, cache, op, arg, fr, mx, res, acq, client, refs, bulk_chunklen>>

\* ------------------------------------------------------------ specification
Next ==
    \E t \in Threads :
        \/ Call(t)
        \/ Return(t)
        \/ E_Lock(t)
        \/ E_GetListFails(t)
        \/ E_GetList(t)
        \/ E_Loop(t)
        \/ M_CacheHit(t)
        \/ M_OpenFails(t)
        \/ M_Open(t)
        \/ M_Attempt(t)
        \/ M_Close(t)
        \/ E_Record(t)
        \/ E_Free(t)
        \/ R_Lock(t)
        \/ R_GetListFails(t)
        \/ R_GetList(t)
        \/ R_Search(t)
        \/ R_Free(t)

\* one thread calling
Spec == Init /\ [][Next]_vars

\* every thread calling
SpecThreads == InitThreads /\ [][Next]_vars

\* one thread calling every entry point
InitHost ==
    /\ InitCommon
    /\ client = {"enum", "ref", "boot", "open", "bootbl", "read", "write"}
    /\ pc = [t \in Threads |-> IF t = "t1" THEN "idle" ELSE "off"]

NextHost ==
    \E t \in Threads :
        \/ Call(t)
        \/ Return(t)
        \/ E_Lock(t)
        \/ E_GetListFails(t)
        \/ E_GetList(t)
        \/ E_Loop(t)
        \/ M_CacheHit(t)
        \/ M_OpenFails(t)
        \/ M_Open(t)
        \/ M_Attempt(t)
        \/ M_Close(t)
        \/ E_Record(t)
        \/ E_Free(t)
        \/ R_Lock(t)
        \/ R_GetListFails(t)
        \/ R_GetList(t)
        \/ R_Search(t)
        \/ R_Free(t)
        \/ H_Enter(t)
        \/ B_PhaseA(t)
        \/ B_OpenDevice(t)
        \/ B_AfterOpen(t)
        \/ S_Transfer(t)
        \/ B_Close(t)
        \/ L_Polled(t)
        \/ L_Open(t)
        \/ BB_Polled(t)
        \/ BB_Open(t)
        \/ P_Transfer(t)

SpecHost == InitHost /\ [][NextHost]_vars

\* every thread enumerates, looks up, boots and opens
InitLive ==
    /\ InitCommon
    /\ client = {"enum", "ref", "boot", "open", "bootbl"}
    /\ pc = [t \in Threads |-> "idle"]

\* the steps a thread takes between acquiring the mutex and releasing it
HoldingStep(t) ==
    \/ E_GetListFails(t)
    \/ E_GetList(t)
    \/ E_Loop(t)
    \/ M_CacheHit(t)
    \/ M_OpenFails(t)
    \/ M_Open(t)
    \/ M_Close(t)
    \/ E_Record(t)
    \/ E_Free(t)
    \/ R_GetListFails(t)
    \/ R_GetList(t)
    \/ R_Search(t)
    \/ R_Free(t)

\* the acquisition of the mutex
LockStep(t) == E_Lock(t) \/ R_Lock(t)

\* the steps of usb_boot, usbLinkOpen and usbLinkBootBootloader outside
\* the lookup
HostStep(t) ==
    \/ H_Enter(t)
    \/ B_PhaseA(t)
    \/ B_OpenDevice(t)
    \/ B_AfterOpen(t)
    \/ S_Transfer(t)
    \/ B_Close(t)
    \/ L_Polled(t)
    \/ L_Open(t)
    \/ BB_Polled(t)
    \/ BB_Open(t)

NextLive ==
    \E t \in Threads :
        \/ Call(t)
        \/ Return(t)
        \/ LockStep(t)
        \/ HoldingStep(t)
        \/ M_Attempt(t)
        \/ HostStep(t)

\* the MxId retry loop ends: its 5 ms budget is over or the body succeeded
BudgetExpires(t) == M_Attempt(t) /\ pc'[t] = "close"

\* Each backend call returns and the retry loop's budget expires, so the
\* thread that holds the mutex goes on until it releases it (weak fairness
\* of the holder's steps: at most one thread has such a step enabled); and
\* the mutex is granted to a waiting thread that finds it free again and
\* again (strong fairness of the acquisition).
Fairness ==
    /\ WF_vars(\E t \in Threads : HoldingStep(t) \/ BudgetExpires(t))
    /\ \A t \in Threads : SF_vars(LockStep(t))

SpecLive == InitLive /\ [][NextLive]_vars /\ Fairness

\* one thread that only enumerates, over longer lists and a larger cache
InitMxId ==
    /\ InitProcess
    /\ cache = [k \in 1..CacheSizeMxId |-> EmptySlot]
    /\ client = {"enum"}
    /\ pc = [t \in Threads |-> IF t = "t1" THEN "idle" ELSE "off"]

NextMxId ==
    \E t \in Threads :
        \/ Call(t)
        \/ Return(t)
        \/ E_Lock(t)
        \/ E_GetListFails(t)
        \/ E_GetList(t)
        \/ E_Loop(t)
        \/ E_Record(t)
        \/ E_Free(t)
        \/ M_CacheHit(t)
        \/ M_OpenFails(t)
        \/ M_Open(t)
        \/ M_Attempt(t)
        \/ M_Close(t)

SpecMxId == InitMxId /\ [][NextMxId]_vars

\* -------------------------------------------------------------- properties
\* the enumerations that have returned
Swept(t) == pc[t] = "done" /\ op[t] = "enum"
Completed(t) == Swept(t) /\ res[t].ret = "X_LINK_PLATFORM_SUCCESS"

\* the records of thread t, in index order
Records(t) == res[t].recs
Written(t) == DOMAIN res[t].recs

\* C1: every record written satisfies the filter: the state filter is ANY or
\* the record's state, the path filter is empty or the record's path, the
\* mxid filter is empty or the record's mxid; so with an mxid filter set no
\* device whose acquisition failed (status not SUCCESS, mxid empty) is reported.
C1_FilterSemantics ==
    \A t \in Threads : \A k \in Written(t) :
        LET d == Records(t)[k]
            F == arg[t].filter
        IN  /\ F.state \in {"ANY", d.state}
            /\ F.name \in {EmptyStr, d.name}
            /\ F.mxid \in {EmptyStr, d.mxid}
            /\ F.mxid # EmptyStr => d.status = "X_LINK_SUCCESS" /\ d.mxid # EmptyStr

\* a sweep with all three filter fields set has reported a device, and an
\* earlier candidate of the same sweep failed its acquisition
C1_Witness ==
    \E t \in Threads :
        /\ Completed(t)
        /\ arg[t].filter.state # "ANY"
        /\ arg[t].filter.name # EmptyStr
        /\ arg[t].filter.mxid # EmptyStr
        /\ Written(t) # {}
        /\ \E j \in 1..Len(acq[t]) : acq[t][j].rc # 0

\* the log entry of the acquisition made for list entry idx (0-based)
LogOf(t, idx) == CHOOSE e \in {acq[t][j] : j \in 1..Len(acq[t])} : e.idx = idx
Logged(t, idx) == \E j \in 1..Len(acq[t]) : acq[t][j].idx = idx

\* list entry idx of a finished sweep is non-null, has a readable descriptor
\* and a (VID, PID) of the table, and passes the state, path and mxid filters
Qualifies(t, idx) ==
    LET dev == fr[t].devs[idx + 1]
        F == arg[t].filter
    IN  /\ ~dev.nul
        /\ dev.desc
        /\ dev.vid = VID_MOVIDIUS
        /\ dev.pid \in {PID_UNBOOTED, PID_BOOTED, PID_BOOTLOADER}
        /\ \/ F.state = "ANY"
           \/ F.state = "UNBOOTED" /\ dev.pid = PID_UNBOOTED
           \/ F.state = "BOOTED" /\ dev.pid = PID_BOOTED
           \/ F.state = "BOOTLOADER" /\ dev.pid = PID_BOOTLOADER
        /\ F.name = EmptyStr \/ F.name = getLibusbDevicePath(dev)
        /\ Logged(t, idx)
        /\ F.mxid = EmptyStr \/ F.mxid = LogOf(t, idx).mxid

\* the qualifying entries among those the loop went through, in list order
RECURSIVE QualifyingUpTo(_, _)
QualifyingUpTo(t, n) ==
    IF n = 0 THEN << >>
    ELSE IF Qualifies(t, n - 1) THEN Append(QualifyingUpTo(t, n - 1), n - 1)
    ELSE QualifyingUpTo(t, n - 1)

TableState(dev) ==
    IF dev.pid = PID_UNBOOTED THEN "UNBOOTED"
    ELSE IF dev.pid = PID_BOOTED THEN "BOOTED"
    ELSE "BOOTLOADER"

\* C2: the output of a completed sweep is, in list order, exactly the first
\* min(capacity, k) of the k qualifying list entries: the loop stops before
\* the end of the list only with the buffer full; record j is made from the
\* j-th qualifying entry, its state the table's state (never ANY).
C2_OutputIsPrefixOfQualifying ==
    \A t \in Threads :
        Completed(t) =>
            LET q == QualifyingUpTo(t, fr[t].i)
                size == arg[t].size
            IN  /\ Written(t) = 0..(Len(q) - 1)
                /\ Len(q) <= Max(size, 0)
                /\ fr[t].i < Len(fr[t].devs) => Len(q) >= size
                /\ \A j \in 1..Len(q) :
                      LET d == Records(t)[j - 1]
                          dev == fr[t].devs[q[j] + 1]
                      IN  /\ d.state = TableState(dev)
                          /\ d.state # "ANY"
                          /\ d.name = getLibusbDevicePath(dev)
                          /\ d.mxid = LogOf(t, q[j]).mxid

\* a sweep was cut short by the capacity: it reported one device and left a
\* later recognised device of the list unvisited
C2_Witness ==
    \E t \in Threads :
        /\ Completed(t)
        /\ arg[t].size = 1
        /\ Written(t) = {0}
        /\ fr[t].i < Len(fr[t].devs)
        /\ fr[t].devs[fr[t].i + 1].pid = PID_BOOTED
        /\ Records(t)[0].state = "UNBOOTED"

\* C3 as stated: after a successful sweep the count is at most the capacity,
\* equals the number of records written, and no record has an index >= capacity
C3_CountWithinCapacity ==
    \A t \in Threads :
        Completed(t) =>
            /\ res[t].amount <= arg[t].size
            /\ res[t].amount = Cardinality(Written(t))
            /\ \A k \in Written(t) : k < arg[t].size

\* C3 amended: the count is at most the capacity when the capacity is not
\* negative and 0 when it is negative; it equals the number of records
\* written, which are at the indices 0..count-1, all below the capacity
C3_CountWithinNonNegativeCapacity ==
    \A t \in Threads :
        Completed(t) =>
            /\ res[t].amountWritten
            /\ res[t].amount <= Max(arg[t].size, 0)
            /\ res[t].amount = Cardinality(Written(t))
            /\ Written(t) = 0..(res[t].amount - 1)
            /\ \A k \in Written(t) : k < arg[t].size

\* the buffer is full and an entry of the list was left unvisited
C3_Witness ==
    \E t \in Threads :
        /\ Completed(t)
        /\ arg[t].size >= 1
        /\ res[t].amount = arg[t].size
        /\ fr[t].i < Len(fr[t].devs)
        /\ \A k \in Written(t) : Records(t)[k].status # "X_LINK_SUCCESS"

\* the acquisitions of thread t whose mxid the mxid filter F accepts
Accepted(t) ==
    SelectSeq(acq[t], LAMBDA e :
        arg[t].filter.mxid = EmptyStr \/ arg[t].filter.mxid = e.mxid)

\* the sweep of t is between two candidates, or over
BetweenCandidates(t) == op[t] = "enum" /\ pc[t] \in {"loop", "free", "done"}

\* C4: the records are, in order, the acquisitions the mxid filter accepts
\* (all of them, failed ones too, when no mxid filter is set), each with the
\* status of its outcome: success -> SUCCESS, access denied ->
\* INSUFFICIENT_PERMISSIONS, anything else -> ERROR.  One UNBOOTED device
\* whose open is denied yields exactly one record: UNBOOTED,
\* INSUFFICIENT_PERMISSIONS, empty mxid.
C4_StatusPerRecord ==
    \A t \in Threads :
        /\ BetweenCandidates(t) =>
              /\ Written(t) = 0..(Len(Accepted(t)) - 1)
              /\ \A j \in 1..Len(Accepted(t)) :
                    LET e == Accepted(t)[j]
                        d == Records(t)[j - 1]
                    IN  /\ d.mxid = e.mxid
                        /\ e.rc = LIBUSB_SUCCESS => d.status = "X_LINK_SUCCESS"
                        /\ e.rc = LIBUSB_ERROR_ACCESS =>
                              d.status = "X_LINK_INSUFFICIENT_PERMISSIONS"
                        /\ e.rc \notin {LIBUSB_SUCCESS, LIBUSB_ERROR_ACCESS} =>
                              d.status = "X_LINK_ERROR"
        /\ ( /\ Completed(t)
             /\ fr[t].devs = <<DevUnbooted>>
             /\ Len(acq[t]) = 1
             /\ ~acq[t][1].hit
             /\ ~acq[t][1].exchanged
             /\ acq[t][1].rc = LIBUSB_ERROR_ACCESS
             /\ arg[t].filter.mxid = EmptyStr )
           => Records(t) =
                 (0 :> [status |-> "X_LINK_INSUFFICIENT_PERMISSIONS",
                        platform |-> "X_LINK_MYRIAD_X",
                        protocol |-> "X_LINK_USB_VSC",
                        state |-> "UNBOOTED",
                        name |-> <<"1", ".", "2">>,
                        mxid |-> EmptyStr])

\* the sweep over one UNBOOTED device whose open was denied has returned
C4_Witness ==
    \E t \in Threads :
        /\ Completed(t)
        /\ fr[t].devs = <<DevUnbooted>>
        /\ Len(acq[t]) = 1
        /\ ~acq[t][1].exchanged
        /\ acq[t][1].rc = LIBUSB_ERROR_ACCESS
        /\ arg[t].filter.mxid = EmptyStr
        /\ Cardinality(Written(t)) = 1

\* C5: an acquisition that returns a non-success code hands back an empty
\* mxid, whatever is in its local buffer; so every record whose status is not
\* SUCCESS has an empty mxid, and a non-empty mxid comes from a cache hit or
\* from an exchange that succeeded in that call.
C5_MxIdOnlyOnSuccess ==
    \A t \in Threads :
        /\ \A k \in Written(t) :
              Records(t)[k].status # "X_LINK_SUCCESS" => Records(t)[k].mxid = EmptyStr
        /\ \A j \in 1..Len(acq[t]) :
              /\ acq[t][j].rc # LIBUSB_SUCCESS => acq[t][j].mxid = EmptyStr
              /\ acq[t][j].mxid # EmptyStr =>
                    acq[t][j].hit \/ (acq[t][j].exchanged /\ acq[t][j].rc = LIBUSB_SUCCESS)
        /\ pc[t] = "record" =>
              /\ mx[t].libusb_rc # LIBUSB_SUCCESS => mx[t].outMxId = EmptyStr
              /\ mx[t].outMxId # EmptyStr =>
                    \/ acq[t][Len(acq[t])].hit
                    \/ mx[t].handle = "closed" /\ mx[t].stage = "done"

\* an acquisition has failed after bytes were written into its local buffer
C5_Witness ==
    \E t \in Threads :
        /\ pc[t] = "record"
        /\ mx[t].handle = "closed"
        /\ mx[t].libusb_rc # LIBUSB_SUCCESS
        /\ mx[t].mxId # EmptyStr

HexChars ==
    {"0", "1", "2", "3", "4", "5", "6", "7", "8", "9", "A", "B", "C", "D", "E", "F"}

\* the value of an uppercase hexadecimal digit
HexValue(c) ==
    CASE c = "0" -> 0 [] c = "1" -> 1 [] c = "2" -> 2 [] c = "3" -> 3
      [] c = "4" -> 4 [] c = "5" -> 5 [] c = "6" -> 6 [] c = "7" -> 7
      [] c = "8" -> 8 [] c = "9" -> 9 [] c = "A" -> 10 [] c = "B" -> 11
      [] c = "C" -> 12 [] c = "D" -> 13 [] c = "E" -> 14 [] c = "F" -> 15

\* the exchange with an UNBOOTED device has just succeeded in thread t
ExchangeSucceeded(t) ==
    /\ pc[t] = "record"
    /\ fr[t].state = "UNBOOTED"
    /\ mx[t].stage = "done"
    /\ mx[t].libusb_rc = LIBUSB_SUCCESS

\* C6: after a successful exchange with an UNBOOTED device the mxid is 18
\* uppercase hexadecimal digits, two per response byte in order, byte 8
\* masked with 0xF0, so the 18th is "0"; the response 12 34 56 78 9A BC DE F0
\* 5A gives "123456789ABCDEF050".
C6_MxIdRendering ==
    \A t \in Threads :
        ExchangeSucceeded(t) =>
            LET id == mx[t].outMxId
                r == mx[t].rbuf
            IN  /\ Len(r) = 9
                /\ Len(id) = 18
                /\ \A k \in 1..18 : id[k] \in HexChars
                /\ \A k \in 1..8 :
                      16 * HexValue(id[2 * k - 1]) + HexValue(id[2 * k]) = r[k]
                /\ 16 * HexValue(id[17]) = r[9] - (r[9] % 16)
                /\ id[18] = "0"
                /\ r = <<18, 52, 86, 120, 154, 188, 222, 240, 90>> => id = ExampleMxId
                /\ acq[t][Len(acq[t])].mxid = id

\* the exchange has succeeded with a response whose last byte has a
\* non-zero low nibble
C6_Witness ==
    \E t \in Threads :
        /\ ExchangeSucceeded(t)
        /\ mx[t].rbuf[9] % 16 # 0
        /\ mx[t].outMxId = ExampleMxId

\* C7: a returned enumeration has released the lock and holds no device
\* list; it returns success exactly when the list was fetched (whatever the
\* statuses of the records) and has then written the count; when the list
\* could not be fetched it returns an error, has written no record and has
\* not touched the caller's count.
C7_ReturnCodeAndRelease ==
    \A t \in Threads :
        Swept(t) =>
            /\ mutex # t
            /\ fr[t].list \in {"none", "freed"}
            /\ fr[t].list = "freed" =>
                  res[t].ret = "X_LINK_PLATFORM_SUCCESS" /\ res[t].amountWritten
            /\ fr[t].list = "none" =>
                  /\ res[t].ret = "X_LINK_PLATFORM_ERROR"
                  /\ Written(t) = {}
                  /\ ~res[t].amountWritten

\* a sweep has returned success with two records, neither of status SUCCESS
C7_Witness ==
    \E t \in Threads :
        /\ Completed(t)
        /\ res[t].amount = 2
        /\ \A k \in Written(t) : Records(t)[k].status # "X_LINK_SUCCESS"
        /\ mutex = NoThread

\* C8: no two reported records share a path
C8_NoSharedPath ==
    \A t \in Threads : \A j, k \in Written(t) :
        j # k => Records(t)[j].name # Records(t)[k].name

\* C9: within a sweep, once an acquisition for a path has succeeded and was
\* stored, every later candidate with that path is served from the cache:
\* same mxid, no open, no exchange.  A hit is always on an entry stored
\* earlier in the same sweep: the cache is empty when the sweep's first
\* lookup is made, and the first candidate of each path performs an open.
C9_CacheWithinSweep ==
    \A t \in Threads :
        /\ \A k \in 1..Len(acq[t]) :
              LET e == acq[t][k]
                  earlier == {acq[t][j] : j \in 1..(k - 1)}
              IN  /\ \A s \in earlier :
                        (s.path = e.path /\ ~s.hit /\ s.rc = LIBUSB_SUCCESS /\ s.stored)
                        => /\ e.hit
                           /\ e.opens = 0
                           /\ ~e.exchanged
                           /\ e.rc = LIBUSB_SUCCESS
                           /\ e.mxid = s.mxid
                  /\ e.hit =>
                        \E s \in earlier :
                            s.path = e.path /\ s.stored /\ s.mxid = e.mxid
                  /\ (\A s \in earlier : s.path # e.path) => e.opens = 1
        /\ (op[t] = "enum" /\ pc[t] \in {"loop", "mxid"} /\ acq[t] = << >>)
           => \A k \in 1..CacheSize : ~cache[k].valid

\* a candidate was served from an entry stored earlier in the sweep
C9_Witness ==
    \E t \in Threads :
        /\ Len(acq[t]) >= 2
        /\ acq[t][1].stored
        /\ acq[t][2].hit
        /\ acq[t][2].mxid # EmptyStr

\* the positions at which a thread is inside getUSBDevices or
\* refLibusbDeviceByName, past the lock
Inside == {"getlist", "loop", "mxid", "attempt", "close", "record", "free", "search"}

\* C10: at most one thread holds a device list, that is, is inside an
\* enumeration or a lookup; a thread past the lock holds it, so each step
\* that initialises, reads or stores into the MxId cache is a step of the
\* lock holder.
C10_MutualExclusion ==
    /\ Cardinality({t \in Threads : fr[t].list = "held"}) <= 1
    /\ Cardinality({t \in Threads : pc[t] \in Inside}) <= 1
    /\ \A t \in Threads : pc[t] \in Inside => mutex = t
    /\ \A t \in Threads : fr[t].list = "held" => mutex = t

\* one thread is about to store into the cache while the other waits for
\* the lock to start a sweep
C10_Witness ==
    \E t, u \in Threads :
        /\ t # u
        /\ pc[t] = "close"
        /\ mx[t].libusb_rc = LIBUSB_SUCCESS
        /\ pc[u] = "lock"
        /\ op[u] = "enum"

\* the path the grammar bus ('.' port)* gives a device
RECURSIVE DottedPorts(_)
DottedPorts(ports) ==
    IF ports = << >> THEN EmptyStr
    ELSE <<".">> \o to_string(Head(ports)) \o DottedPorts(Tail(ports))

GrammarPath(dev) == to_string(dev.bus) \o DottedPorts(dev.ports)

\* the devices whose port chain fits the encoder's array
Encodable == {d \in Catalog : ~d.nul /\ Len(d.ports) <= MAXIMUM_PORT_NUMBERS}

\* the enumerator has just encoded the path of the entry it is at
PathEncoded(t) == op[t] = "enum" /\ pc[t] = "mxid"

\* C19: the path of a device with bus b and ports p1..pN (N <= 7) is the
\* decimal b followed by "." and the decimal of each port; a bus-only device
\* renders as just the bus number, without a trailing separator; distinct
\* (bus, port chain) pairs get distinct paths.
C19_PathGrammar ==
    /\ \A t \in Threads :
          (PathEncoded(t) /\ CurrentDevice(t) \in Encodable)
          => fr[t].devicePath = GrammarPath(CurrentDevice(t))
    /\ \A d, e \in Encodable :
          <<d.bus, d.ports>> # <<e.bus, e.ports>>
          => getLibusbDevicePath(d) # getLibusbDevicePath(e)

\* C20: when the handle opened by an MxId acquisition is closed, interface 0
\* is not in the claimed state on it
C20_ReleasedBeforeClose ==
    \A t \in Threads : mx[t].handle = "closed" => ~mx[t].claimed

\* the bytes the bulk transfers of a log have moved
RECURSIVE Transmitted(_)
Transmitted(log) ==
    IF log = << >> THEN 0 ELSE Head(log).done + Transmitted(Tail(log))

\* usb_boot has called send_file, and send_file has returned
SendOver(t) == op[t] = "boot" /\ pc[t] \in {"sent", "done"} /\ bt[t].sends = 1

\* C11: whenever send_file returns 0, the bytes its bulk writes transmitted
\* sum to the image length
C11_SentEqualsLength ==
    \A t \in Threads :
        (SendOver(t) /\ bt[t].rc = "0") => Transmitted(bt[t].log) = bt[t].size

\* the zero-length transfers of a log, and its data chunks
ZLPs(log) == {k \in 1..Len(log) : log[k].len = 0}
DataChunks(log) == {k \in 1..Len(log) : log[k].len > 0}

\* every data chunk of the image was written, without error
AllDataWritten(t) ==
    /\ \A k \in DataChunks(bt[t].log) :
          bt[t].log[k].rc = LIBUSB_SUCCESS /\ bt[t].log[k].done = bt[t].log[k].len
    /\ Transmitted(bt[t].log) = bt[t].size

\* C12 as stated: in a send whose data chunks are all written without error,
\* exactly one zero-length transfer is issued if and only if the length is a
\* multiple of 512; it is the last transfer; none is issued otherwise
C12_ZlpIffMultipleOf512 ==
    \A t \in Threads :
        (SendOver(t) /\ AllDataWritten(t)) =>
            /\ Cardinality(ZLPs(bt[t].log)) = 1 <=> bt[t].size % 512 = 0
            /\ ZLPs(bt[t].log) \subseteq {Len(bt[t].log)}
            /\ bt[t].size % 512 # 0 => ZLPs(bt[t].log) = {}

\* C12, amended: the same for a send that is not cut short by the send-file
\* timeout, that is, one that returns 0; whatever the outcome, a zero-length
\* transfer is only ever the last transfer, follows the whole image, is only
\* issued for a multiple of 512, and its return code changes nothing.
C12_ZlpUnlessTimedOut ==
    \A t \in Threads :
        LET log == bt[t].log
        IN  op[t] = "boot" =>
              /\ Cardinality(ZLPs(log)) <= 1
              /\ ZLPs(log) \subseteq {Len(log)}
              /\ ZLPs(log) # {} =>
                    /\ bt[t].size % 512 = 0
                    /\ AllDataWritten(t)
                    /\ pc[t] # "send"
                    /\ bt[t].rc \in {"0", "USB_BOOT_TIMEOUT"}
              /\ bt[t].size % 512 # 0 => ZLPs(log) = {}
              /\ (SendOver(t) /\ AllDataWritten(t) /\ bt[t].rc = "0") =>
                    (Cardinality(ZLPs(log)) = 1 <=> bt[t].size % 512 = 0)

\* a send of two data chunks and a trailer whose own return code was an
\* error has returned 0
C12_Witness ==
    \E t \in Threads :
        /\ SendOver(t)
        /\ bt[t].rc = "0"
        /\ Len(bt[t].log) = 3
        /\ bt[t].log[3].len = 0
        /\ bt[t].log[3].rc # LIBUSB_SUCCESS

\* C13: each data chunk has size min(remaining, C), C the max-packet-size of
\* the bulk OUT endpoint that open-device found (bcdusb is never below 0x200
\* here); a 1024-byte image with max-packet 512 goes out as two 512-byte
\* writes and a trailer
C13_ChunkIsMaxPacket ==
    \A t \in Threads :
        op[t] = "boot" =>
            /\ \A k \in DataChunks(bt[t].log) :
                  bt[t].log[k].len = Min(bt[t].size - bt[t].log[k].off, bulk_chunklen)
            /\ ( /\ SendOver(t)
                 /\ bt[t].rc = "0"
                 /\ bt[t].size = 1024
                 /\ bulk_chunklen = 512
                 /\ AllDataWritten(t) )
               => /\ Len(bt[t].log) = 3
                  /\ bt[t].log[1].len = 512
                  /\ bt[t].log[2].len = 512
                  /\ bt[t].log[3].len = 0

\* the transfer failed as send_file sees it: a data chunk with an error code
\* or with fewer bytes written than asked
ChunkFailed(e) == e.len # 0 /\ (e.rc # LIBUSB_SUCCESS \/ e.done # e.len)

\* C14: a failing data chunk is the last transfer of the send; the send then
\* returns BOOT_TIMEOUT for a backend TIMEOUT, ends its loop (returning 0)
\* for NO_DEVICE, and returns BOOT_ERROR for any other error and for a short
\* write without error; usb_boot calls send_file at most once.
C14_SendErrorOutcomes ==
    \A t \in Threads :
        LET log == bt[t].log
        IN  op[t] = "boot" =>
              /\ bt[t].sends <= 1
              /\ \A k \in 1..Len(log) : ChunkFailed(log[k]) => k = Len(log) /\ pc[t] # "send"
              /\ (SendOver(t) /\ log # << >> /\ ChunkFailed(log[Len(log)])) =>
                    LET e == log[Len(log)]
                    IN  /\ e.rc = LIBUSB_ERROR_TIMEOUT => bt[t].rc = "USB_BOOT_TIMEOUT"
                        /\ e.rc = LIBUSB_ERROR_NO_DEVICE => bt[t].rc = "0"
                        /\ e.rc \notin {LIBUSB_ERROR_TIMEOUT, LIBUSB_ERROR_NO_DEVICE} =>
                              bt[t].rc = "USB_BOOT_ERROR"

\* the second chunk of an image was written short, without an error code
C14_Witness ==
    \E t \in Threads :
        /\ SendOver(t)
        /\ Len(bt[t].log) = 2
        /\ bt[t].log[2].rc = LIBUSB_SUCCESS
        /\ bt[t].log[2].done < bt[t].log[2].len
        /\ bt[t].rc = "USB_BOOT_ERROR"

\* C15: Phase B runs only after Phase A found the device; when Phase A never
\* does, usb_boot returns DEVICE_NOT_FOUND and has opened nothing and sent
\* nothing; when Phase B obtains no handle it returns
\* INSUFFICIENT_PERMISSIONS and has sent nothing; send_file runs only with a
\* device and a handle.
C15_BootPhases ==
    \A t \in Threads :
        op[t] = "boot" =>
            /\ pc[t] \in {"openloop", "opened", "send", "sent"} => bt[t].hasDev
            /\ ~bt[t].hasDev =>
                  /\ ~bt[t].opened
                  /\ bt[t].h.state = "none"
                  /\ bt[t].sends = 0
                  /\ bt[t].log = << >>
            /\ pc[t] = "done" =>
                  /\ bt[t].rc = "X_LINK_PLATFORM_DEVICE_NOT_FOUND" <=> ~bt[t].hasDev
                  /\ bt[t].rc = "X_LINK_PLATFORM_INSUFFICIENT_PERMISSIONS" <=>
                        (bt[t].hasDev /\ bt[t].h.stage # "done")
                  /\ bt[t].h.stage # "done" => bt[t].sends = 0 /\ bt[t].log = << >>
            /\ bt[t].sends > 0 => bt[t].hasDev /\ bt[t].h.stage = "done"
            /\ bt[t].log # << >> => bt[t].sends > 0

\* usb_boot found the device, could not open it and has returned
C15_Witness ==
    \E t \in Threads :
        /\ op[t] = "boot"
        /\ pc[t] = "done"
        /\ bt[t].hasDev
        /\ bt[t].opened
        /\ bt[t].h.stage = "claim_interface"
        /\ bt[t].rc = "X_LINK_PLATFORM_INSUFFICIENT_PERMISSIONS"

\* C16: once Phase A succeeded, usb_boot returns with the device reference
\* released exactly once; a handle opened in Phase B is closed exactly once,
\* and interface 0 is not claimed on it when it is closed
C16_BootReleasesEverything ==
    \A t \in Threads :
        op[t] = "boot" =>
            /\ (pc[t] = "done" /\ bt[t].hasDev) => bt[t].unrefs = 1
            /\ pc[t] = "done" => bt[t].h.state # "open"
            /\ bt[t].h.state = "closed" => bt[t].h.closes = 1 /\ ~bt[t].h.claimed

\* no device has more or fewer references than at start
Balanced == \A d \in Catalog : refs[d] = 0

\* only device d has an extra reference, and exactly one
OneExtra(d) == \A e \in Catalog : refs[e] = (IF e = d THEN 1 ELSE 0)

\* refLibusbDeviceByName has just returned in thread t
LookupOver(t) ==
    \/ op[t] = "ref" /\ pc[t] = "done"
    \/ op[t] \in {"boot", "open", "bootbl"} /\ pc[t] = "polled"

\* C17: a successful lookup leaves the matched device, whose path is the
\* name asked for, with one extra reference and every other count as it
\* was; a failed one (no match, empty name, no list) changes no count and
\* does not write *pdev.  usb_boot, usbLinkOpen and usbLinkBootBootloader
\* release the reference they got exactly once before they return, so
\* between calls every count is what it was at start.
C17_ReferenceAccounting ==
    \A t \in Threads :
        /\ \A d \in Catalog : refs[d] >= 0
        /\ pc[t] = "idle" => Balanced
        /\ LookupOver(t) =>
              IF res[t].ret = "X_LINK_PLATFORM_SUCCESS"
              THEN /\ res[t].pdev \in 1..Len(fr[t].devs)
                   /\ arg[t].name # EmptyStr
                   /\ getLibusbDevicePath(fr[t].devs[res[t].pdev]) = arg[t].name
                   /\ OneExtra(fr[t].devs[res[t].pdev])
              ELSE /\ res[t].pdev = 0
                   /\ Balanced
        /\ (op[t] \in {"boot", "open", "bootbl"} /\ pc[t] = "done") =>
              /\ bt[t].unrefs = (IF bt[t].hasDev THEN 1 ELSE 0)
              /\ Balanced
        /\ (op[t] = "enum" /\ pc[t] = "done") => Balanced

\* usbLinkOpen got a reference, failed to open the device and has returned
C17_Witness ==
    \E t \in Threads :
        /\ op[t] = "open"
        /\ pc[t] = "done"
        /\ bt[t].hasDev
        /\ bt[t].h.stage = "libusb_open"
        /\ bt[t].unrefs = 1

\* the pipe calls
InPipe(t) == op[t] \in {"read", "write"}

\* C18: usb_read and usb_write move the buffer front to back in chunks of
\* at most DEFAULT_CHUNKSZ over 0x81 and 0x01; each transfer starts at the
\* first byte not yet transferred, also after a short one; the first error
\* is the last transfer and is returned; 0 is returned only when the bytes
\* transferred sum to the size asked for; no transfer has length zero.
C18_BulkPipe ==
    \A t \in Threads :
        LET log == bt[t].log
        IN  InPipe(t) =>
              /\ \A k \in 1..Len(log) :
                    /\ log[k].ep = (IF op[t] = "read" THEN 129 ELSE 1)
                    /\ log[k].len >= 1
                    /\ log[k].len <= DEFAULT_CHUNKSZ
                    /\ log[k].off = Transmitted(SubSeq(log, 1, k - 1))
                    /\ log[k].len = Min(bt[t].size - log[k].off, DEFAULT_CHUNKSZ)
                    /\ log[k].rc # LIBUSB_SUCCESS => k = Len(log) /\ pc[t] = "done"
              /\ pc[t] = "done" =>
                    /\ bt[t].ret = 0 => Transmitted(log) = bt[t].size
                    /\ bt[t].ret = 0 => \A k \in 1..Len(log) : log[k].rc = LIBUSB_SUCCESS
                    /\ bt[t].ret # 0 => log # << >> /\ log[Len(log)].rc = bt[t].ret

\* a write of two chunks has returned 0 after a short transfer was continued
C18_Witness ==
    \E t \in Threads :
        /\ op[t] = "write"
        /\ pc[t] = "done"
        /\ bt[t].ret = 0
        /\ bt[t].size > DEFAULT_CHUNKSZ
        /\ \E k \in 1..Len(bt[t].log) : bt[t].log[k].done < bt[t].log[k].len

\* a backend call of the log that returned success
StepOk(e, fn, ep) == e.fn = fn /\ e.ep = ep /\ e.rc = LIBUSB_SUCCESS

\* the calls c are one full exchange: configuration confirmed (k = 1) or set
\* to 1 (k = 2), interface 0 claimed, the request written whole to 0x01,
\* 9 bytes read from 0x81, the end payload written whole to 0x01, interface
\* released, and nothing else
FullExchange(c) ==
    \E k \in {1, 2} :
        /\ Len(c) = k + 5
        /\ StepOk(c[1], "libusb_get_configuration", 0)
        /\ k = 1 => c[1].n = 1
        /\ k = 2 => c[1].n # 1 /\ StepOk(c[2], "libusb_set_configuration", 0) /\ c[2].n = 1
        /\ StepOk(c[k + 1], "libusb_claim_interface", 0)
        /\ StepOk(c[k + 2], "libusb_bulk_transfer", 1)
        /\ c[k + 2].n = usb_mx_id_get_payload_size
        /\ StepOk(c[k + 3], "libusb_bulk_transfer", 129)
        /\ c[k + 3].n = 9
        /\ StepOk(c[k + 4], "libusb_bulk_transfer", 1)
        /\ c[k + 4].n = usb_mx_id_get_payload_end_size
        /\ StepOk(c[k + 5], "libusb_release_interface", 0)

\* thread t is in an acquisition from an UNBOOTED device whose loop body has
\* run at least once
Exchanging(t) ==
    /\ pc[t] \in {"attempt", "close", "record"}
    /\ fr[t].state = "UNBOOTED"
    /\ mx[t].tried

\* C21: every attempt of the exchange with an UNBOOTED device starts at the
\* configuration step; an mxid is produced only by an attempt whose calls
\* are, in order and all in that attempt, configuration confirmed or set to
\* 1, claim of interface 0, the whole request to 0x01, exactly 9 bytes from
\* 0x81 and the whole end payload to 0x01, and it is rendered from the 9
\* bytes that attempt read; an attempt that fails at any step, the end
\* payload after a valid read included, produces nothing and leaves a
\* non-zero code, so that the next attempt starts over
C21_ExchangeStateMachine ==
    \A t \in Threads :
        Exchanging(t) =>
            LET c == mx[t].calls
            IN  /\ c # << >>
                /\ c[1].fn = "libusb_get_configuration"
                /\ (mx[t].mxId # EmptyStr \/ mx[t].outMxId # EmptyStr \/ mx[t].libusb_rc = 0)
                   => /\ FullExchange(c)
                      /\ mx[t].libusb_rc = 0
                      /\ \E k \in 1..Len(c) :
                            /\ c[k].ep = 129
                            /\ mx[t].mxId = RenderMxId(c[k].data)
                /\ ~FullExchange(c)
                   => /\ mx[t].mxId = EmptyStr
                      /\ mx[t].outMxId = EmptyStr
                      /\ mx[t].libusb_rc # 0

\* an mxid was produced by an attempt that had to set the configuration
C21_Witness ==
    \E t \in Threads :
        /\ Exchanging(t)
        /\ pc[t] = "record"
        /\ mx[t].outMxId = ExampleMxId
        /\ Len(mx[t].calls) = 7

\* an attempt was discarded because the end payload failed after a valid
\* 9-byte read, and the loop goes round again
C21_EndFailureDiscards ==
    \E t \in Threads :
        /\ Exchanging(t)
        /\ pc[t] = "attempt"
        /\ mx[t].stage = "end"
        /\ \E k \in 1..Len(mx[t].calls) :
              mx[t].calls[k].ep = 129 /\ mx[t].calls[k].rc = 0 /\ mx[t].calls[k].n = 9
        /\ mx[t].mxId = EmptyStr

\* the valid entries of the cache, as (path, mxid) pairs
CacheEntries == {<<cache[k].path, cache[k].mxid>> : k \in {j \in DOMAIN cache : cache[j].valid}}

\* C22: an acquisition served from the cache opens nothing; any other opens
\* the device once, whatever the number of retries.  When the open fails the
\* call returns its error at once: no run of the loop, no close, no store,
\* no mxid.  When it succeeds the handle is closed exactly once before the
\* call returns, success or not; the store is called only on success and
\* with the handle closed; the cache holds only what successful
\* acquisitions stored; and a successful loop returns success and its mxid
\* also when the cache had no room.
C22_HandleDiscipline ==
    \A t \in Threads :
        /\ \A k \in 1..Len(acq[t]) :
              LET e == acq[t][k]
              IN  /\ e.hit => e.opens = 0 /\ e.closes = 0 /\ e.atStore = "none" /\ ~e.stored
                  /\ ~e.hit => e.opens = 1
                  /\ (~e.hit /\ ~e.exchanged)
                     => /\ e.rc < 0
                        /\ e.closes = 0
                        /\ e.atStore = "none"
                        /\ ~e.stored
                        /\ e.mxid = EmptyStr
                  /\ e.exchanged => e.closes = 1
                  /\ e.atStore # "none" <=> (~e.hit /\ e.rc = 0)
                  /\ e.atStore # "none" => e.atStore = "closed"
                  /\ e.stored => e.atStore = "closed" /\ <<e.path, e.mxid>> \in CacheEntries
        /\ (op[t] = "enum" /\ pc[t] \in {"loop", "mxid", "attempt", "close", "record"})
           => \A c \in CacheEntries :
                 \E k \in 1..Len(acq[t]) :
                     acq[t][k].stored /\ <<acq[t][k].path, acq[t][k].mxid>> = c
        /\ pc[t] \in {"attempt", "close"}
           => mx[t].handle = "open" /\ mx[t].opens = 1 /\ mx[t].closes = 0
        /\ (pc[t] = "record" /\ mx[t].tried)
           => /\ mx[t].handle = "closed" /\ mx[t].opens = 1 /\ mx[t].closes = 1
              /\ mx[t].stage = "done"
                 => /\ acq[t][Len(acq[t])].rc = 0
                    /\ acq[t][Len(acq[t])].mxid = mx[t].mxId
                    /\ mx[t].outMxId = mx[t].mxId

\* a sweep in which the cache was full for a successful acquisition that
\* had retried
C22_Witness ==
    \E t \in Threads :
        /\ pc[t] = "record"
        /\ Len(acq[t]) = 3
        /\ acq[t][1].stored /\ acq[t][2].stored
        /\ acq[t][3].exchanged /\ acq[t][3].rc = 0 /\ ~acq[t][3].stored
        /\ acq[t][3].mxid # EmptyStr
        /\ FreeSlots(cache) = {}

\* C23: when an acquisition fails after its loop has run, the code it
\* returns is the code the last backend call of the loop returned, whatever
\* the step: get or set configuration, claim, one of the three bulk
\* transfers, or the string-descriptor read
C23_LastBackendError ==
    \A t \in Threads :
        (pc[t] = "record" /\ mx[t].tried /\ mx[t].libusb_rc # 0)
        => LET c == mx[t].calls
               e == acq[t][Len(acq[t])]
           IN  c[Len(c)].rc < 0 => e.rc = c[Len(c)].rc

\* C24: the cache never holds two valid entries with the same path: an
\* acquisition that will store is past a lookup miss for its path, made
\* under the lock it still holds, and the valid entries fill the cache from
\* the first slot on
C24_CacheUniquePaths ==
    /\ \A j, k \in DOMAIN cache :
          (j # k /\ cache[j].valid /\ cache[k].valid) => cache[j].path # cache[k].path
    /\ \A k \in DOMAIN cache :
          cache[k].valid => \A j \in 1..(k - 1) : cache[j].valid
    /\ \A t \in Threads :
          pc[t] \in {"attempt", "close"}
          => /\ mutex = t
             /\ \A k \in DOMAIN cache :
                   cache[k].valid => cache[k].path # fr[t].devicePath

\* two entries are valid after a sweep over candidates that share a path,
\* the second of which was served from the cache
C24_Witness ==
    \E t \in Threads :
        /\ Len(acq[t]) = 3
        /\ acq[t][1].stored
        /\ acq[t][2].hit
        /\ acq[t][2].path = acq[t][1].path
        /\ acq[t][3].stored
        /\ \A k \in DOMAIN cache : cache[k].valid
        /\ Cardinality(DOMAIN cache) >= 2

\* the positions at which a thread is outside getUSBDevices and
\* refLibusbDeviceByName, or about to lock
Outside ==
    {"idle", "enter", "lock", "polled", "openloop", "opened", "send", "sent",
     "linkopen", "blopen", "pipe", "done", "off"}

InSend(t) == op[t] = "boot" /\ bt[t].sends > 0

\* C26: the transfer loops terminate: every transfer after which a loop goes
\* on has moved at least one byte, so usb_read and usb_write issue at most
\* size transfers and send_file at most filesize data chunks and one
\* trailer, whatever the backend answers
C26_TransferLoopsTerminate ==
    \A t \in Threads :
        LET log == bt[t].log
        IN  /\ InPipe(t)
               => /\ Len(log) <= bt[t].size
                  /\ \A k \in 1..Len(log) :
                        log[k].rc = LIBUSB_SUCCESS => log[k].done >= 1
            /\ InSend(t)
               => /\ Len(log) <= bt[t].size + 1
                  /\ \A k \in 1..(Len(log) - 1) : log[k].done >= 1

=============================================================================
